---- MODULE Spec2Model ----
(***************************************************************************)
(* Schema discovery and caching engine of ml-agent (slack-lists CLI).      *)
(*                                                                         *)
(* The model follows lib/schema-resolver.ts (resolveSchemaIndex), the      *)
(* schema cache of src/lib/cache.ts and resolveSchemaPath of               *)
(* src/lib/config.ts.  One invocation of resolveSchemaIndex is a process   *)
(* that advances one step per awaited I/O operation (a remote call, a      *)
(* cache load, a cache save); the remote service and the file system       *)
(* answer each step nondeterministically.                                  *)
(*                                                                         *)
(* lib/schema.ts (normalizeSchema, inferSchemaFromItems, mergeSchemas,     *)
(* buildSchemaIndex, loadSchemaFromFile) is not part of the sources at     *)
(* hand; those operators are written from the design document.             *)
(***************************************************************************)
EXTENDS Integers, Sequences, FiniteSets, TLC

(***************************************************************************)
(* Bounds and fixed data                                                   *)
(***************************************************************************)

\* Longest page of sample items the service answers slackLists.items.list with.
MaxItems == 2

\* JavaScript's undefined, for string-valued slots.
Undef == "undefined"

\* The list every call is about, and a foreign list id a response may carry.
ListId == "L1"
OtherListId == "L2"

NoOptions == [defined |-> FALSE, choices |-> <<>>]
Choices(cs) == [defined |-> TRUE, choices |-> cs]

Col(id, key, type, options) ==
  [id |-> id, key |-> key, type |-> type, options |-> options]

NoSchema == [list_id |-> Undef, columns |-> <<>>]

\* Column ids of a schema, in order.
ColIds(schema) == {schema.columns[i].id : i \in 1..Len(schema.columns)}

\* The first column of the schema with the given id.
ColById(schema, id) ==
  LET i == CHOOSE k \in 1..Len(schema.columns) :
             /\ schema.columns[k].id = id
             /\ \A j \in 1..(k-1) : schema.columns[j].id # id
  IN  schema.columns[i]

(***************************************************************************)
(* JSON documents: an object is a function from member names to values;    *)
(* a member whose value is undefined is not written.                       *)
(***************************************************************************)

JsonColumn(c) ==
  IF c.options.defined
    THEN [m \in {"id", "key", "type", "options"} |->
            CASE m = "id" -> <<c.id>>
              [] m = "key" -> <<c.key>>
              [] m = "type" -> <<c.type>>
              [] OTHER -> c.options.choices]
    ELSE [m \in {"id", "key", "type"} |->
            CASE m = "id" -> <<c.id>>
              [] m = "key" -> <<c.key>>
              [] OTHER -> <<c.type>>]

\* A serializer that loses the columns' options.
StringifyWithoutOptions(schema) ==
  [list_id |-> schema.list_id,
   columns |-> [i \in 1..Len(schema.columns) |->
                  JsonColumn([schema.columns[i] EXCEPT !.options = NoOptions])]]

\* JSON.stringify(schema, null, 2)
Stringify(schema) ==
  [list_id |-> schema.list_id,
   columns |-> [i \in 1..Len(schema.columns) |-> JsonColumn(schema.columns[i])]]

\* A reader that ignores the columns' options.
ParseWithoutOptions(doc) ==
  [list_id |-> doc.list_id,
   columns |-> [i \in 1..Len(doc.columns) |->
                  Col(doc.columns[i]["id"][1], doc.columns[i]["key"][1],
                      doc.columns[i]["type"][1], NoOptions)]]

ParseColumn(o) ==
  Col(o["id"][1], o["key"][1], o["type"][1],
      IF "options" \in DOMAIN o THEN Choices(o["options"]) ELSE NoOptions)

\* JSON.parse(raw) as ListSchema
Parse(doc) ==
  [list_id |-> doc.list_id,
   columns |-> [i \in 1..Len(doc.columns) |-> ParseColumn(doc.columns[i])]]

(***************************************************************************)
(* lib/schema.ts, from the design document                                 *)
(***************************************************************************)

\* A column as the service describes it: <<id, key, type, choices>>.
RawCol(id, key, type, choices) == <<id, key, type, choices>>

\* normalizeSchema(raw): the canonical Schema of a remote representation
\* [list_id, list_metadata]; list_metadata is the sequence of raw columns.
normalizeSchema(raw) ==
  [list_id |-> raw.list_id,
   columns |-> [i \in 1..Len(raw.list_metadata) |->
                  LET r == raw.list_metadata[i]
                  IN  Col(r[1], r[2], r[3],
                          IF r[4] = <<>> THEN NoOptions ELSE Choices(r[4]))]]

\* A field of an item: the column it belongs to, its explicit key tag (Undef
\* when it carries none) and which tagged variant is populated ("value" when
\* only the generic fallback value is).
Field(column_id, key, variant) ==
  [column_id |-> column_id, key |-> key, variant |-> variant]

GuessType(field) == IF field.variant = "value" THEN "text" ELSE field.variant

DerivedKey(field) == IF field.key # Undef THEN field.key ELSE field.column_id

RECURSIVE AllFields(_)
AllFields(items) ==
  IF items = <<>> THEN <<>> ELSE Head(items).fields \o AllFields(Tail(items))

RECURSIVE InferColumns(_, _)
InferColumns(fields, acc) ==
  IF fields = <<>> THEN acc
  ELSE LET f == Head(fields)
           k == DerivedKey(f)
           seen == \E i \in 1..Len(acc) : acc[i].key = k
       IN  InferColumns(Tail(fields),
             IF seen THEN acc
             ELSE Append(acc, Col(f.column_id, k, GuessType(f), NoOptions)))

\* inferSchemaFromItems(listId, items)
inferSchemaFromItems(listId, items) ==
  [list_id |-> listId, columns |-> InferColumns(AllFields(items), <<>>)]

RECURSIVE MergeColumns(_, _)
MergeColumns(acc, cols) ==
  IF cols = <<>> THEN acc
  ELSE LET c == Head(cols)
           present == \E i \in 1..Len(acc) : acc[i].id = c.id
       IN  MergeColumns(IF present THEN acc ELSE Append(acc, c), Tail(cols))

\* mergeSchemas(existing, candidate); hasExisting is FALSE for existing = null.
mergeSchemas(hasExisting, existing, candidate) ==
  IF ~hasExisting THEN candidate
  ELSE [list_id |-> existing.list_id,
        columns |-> MergeColumns(existing.columns, candidate.columns)]

\* buildSchemaIndex(schema): the schema with its lookup map by column id.
buildSchemaIndex(schema) ==
  [schema |-> schema,
   byId |-> [id \in ColIds(schema) |-> ColById(schema, id)]]

(***************************************************************************)
(* Errors and the cache files (src/lib/cache.ts)                           *)
(***************************************************************************)

\* A thrown error: error.data.error, error.code, and the operation that
\* raised it (its identity).
Err(data_error, code, at) == [data_error |-> data_error, code |-> code, at |-> at]
NoErr == Err(Undef, Undef, Undef)

\* A file: absent, present with unparsable content, or a JSON document.
FileAbsent == [st |-> "absent", doc |-> Stringify(NoSchema)]
FileBad == [st |-> "bad", doc |-> Stringify(NoSchema)]
FileOf(schema) == [st |-> "ok", doc |-> Stringify(schema)]

\* One entry of the I/O trace of an invocation.
Ev(op, out) == [op |-> op, out |-> out]

\* fs.readFile + JSON.parse of one path: what the try block ends with.
ReadJson(file, at) ==
  CASE file.st = "ok" -> [out |-> "schema", schema |-> Parse(file.doc), err |-> NoErr]
    [] file.st = "absent" -> [out |-> "throw", schema |-> NoSchema, err |-> Err(Undef, "ENOENT", at)]
    [] OTHER -> [out |-> "throw", schema |-> NoSchema, err |-> Err(Undef, Undef, at)]

\* A loadCachedSchema that falls back to the legacy file on any failure.
loadCachedSchemaFallsBackOnAnyError(canonF, legacyF) ==
  LET c == ReadJson(canonF, "fs.readCanon")
      l == ReadJson(legacyF, "fs.readLegacy")
      rc == <<Ev("fs.readCanon", canonF.st)>>
      rl == <<Ev("fs.readLegacy", legacyF.st)>>
  IN  IF c.out = "schema" THEN c @@ [reads |-> rc]
      ELSE IF l.out = "schema" THEN l @@ [reads |-> rc \o rl]
      ELSE IF l.err.code = "ENOENT"
        THEN [out |-> "null", schema |-> NoSchema, err |-> NoErr, reads |-> rc \o rl]
        ELSE l @@ [reads |-> rc \o rl]

\* loadCachedSchema(listId) over the canonical and the legacy file:
\* out is "schema", "null" or "throw"; reads is the trace of the file reads.
loadCachedSchema(canonF, legacyF) ==
  LET c == ReadJson(canonF, "fs.readCanon")
      l == ReadJson(legacyF, "fs.readLegacy")
      rc == <<Ev("fs.readCanon", canonF.st)>>
      rl == <<Ev("fs.readLegacy", legacyF.st)>>
  IN  IF c.out = "schema" THEN c @@ [reads |-> rc]
      ELSE IF c.err.code = "ENOENT"
        THEN IF l.out = "schema" THEN l @@ [reads |-> rc \o rl]
             ELSE IF l.err.code = "ENOENT"
               THEN [out |-> "null", schema |-> NoSchema, err |-> NoErr, reads |-> rc \o rl]
               ELSE l @@ [reads |-> rc \o rl]
        ELSE c @@ [reads |-> rc]

\* A resolveSchemaPath that forgets the environment.
resolveSchemaPathCliOnly(cliPath, envPath) == cliPath

\* resolveSchemaPath(cliPath): cliPath ?? process.env.SLACK_LIST_SCHEMA_PATH
resolveSchemaPath(cliPath, envPath) == IF cliPath # Undef THEN cliPath ELSE envPath

\* JavaScript truthiness of an optional string.
Truthy(str) == str # Undef /\ str # ""

(***************************************************************************)
(* The environment: override files, remote responses, initial cache        *)
(***************************************************************************)

OptStatus == <<"open", "done">>

\* Schema files a --schema / SLACK_LIST_SCHEMA_PATH path may name.
SchemaFile(path) ==
  CASE path = "a.json" ->
         FileOf([list_id |-> ListId,
                 columns |-> <<Col("c1", "status", "select", Choices(OptStatus))>>])
    [] path = "e.json" ->
         FileOf([list_id |-> ListId,
                 columns |-> <<Col("c2", "owner", "user", NoOptions)>>])
    [] OTHER -> FileAbsent

CliPaths == {Undef, "", "a.json", "missing.json"}
EnvPaths == {Undef, "e.json"}

\* loadSchemaFromFile(path)
loadSchemaFromFile(path) == ReadJson(SchemaFile(path), "fs.readFile")

\* Cache contents a run may start from.
CachedConfirmed ==
  [list_id |-> ListId,
   columns |-> <<Col("c1", "status", "select", Choices(OptStatus))>>]
CachedOther ==
  [list_id |-> ListId,
   columns |-> <<Col("c2", "c2", "rating", NoOptions), Col("c1", "status", "user", NoOptions)>>]
CachedLegacy ==
  [list_id |-> ListId,
   columns |-> <<Col("c1", "status", "date", NoOptions)>>]

InitCanon == {FileAbsent, FileBad, FileOf(CachedConfirmed), FileOf(CachedOther)}
InitLegacy == {FileAbsent, FileBad, FileOf(CachedLegacy)}

\* Remote errors: classified by the service (data.error) or not at all.
RemoteErrors(at) ==
  {Err("unknown_method", Undef, at), Err("ratelimited", Undef, at), Err(Undef, Undef, at)}

Returned(body) == [kind |-> "return", body |-> body, err |-> NoErr]
Thrown(body, e) == [kind |-> "throw", body |-> body, err |-> e]

\* How a response shows in the I/O trace.
Outcome(resp, okLabel) ==
  IF resp.kind = "return" THEN okLabel
  ELSE IF resp.err.data_error # Undef THEN resp.err.data_error ELSE "unclassified"

MetaStatus == <<RawCol("c1", "status", "select", OptStatus)>>
MetaTwo == <<RawCol("c1", "status", "user", <<>>), RawCol("c2", "owner", "user", <<>>)>>

\* slackLists.info
DescribeBodies ==
  {[ok |-> o, list_id |-> ListId, list_metadata |-> m] :
      o \in BOOLEAN, m \in {<<>>, MetaStatus, MetaTwo}}
DescribeResponses ==
  {Returned(b) : b \in {x \in DescribeBodies : x.ok \/ x.list_metadata = <<>>}}
    \cup {Thrown([ok |-> FALSE, list_id |-> ListId, list_metadata |-> <<>>], e) :
            e \in RemoteErrors("slackLists.info")}

\* Items the service may list.
ItemPool ==
  {[id |-> "I1", fields |-> <<Field("c1", "status", "select"), Field("c2", Undef, "user")>>],
   [id |-> Undef, fields |-> <<Field("c1", "status", "value")>>],
   [id |-> "I3", fields |-> <<>>]}

ItemLists == UNION {[1..n -> ItemPool] : n \in 0..MaxItems}

\* slackLists.items.list; hasItems is FALSE when the result has no items member.
ListBodies ==
  {[hasItems |-> TRUE, items |-> is] : is \in ItemLists}
    \cup {[hasItems |-> FALSE, items |-> <<>>]}
ListResponses ==
  {Returned(b) : b \in ListBodies}
    \cup {Thrown([hasItems |-> FALSE, items |-> <<>>], e) :
            e \in RemoteErrors("slackLists.items.list")}

\* slackLists.items.info: result.list, result.list.list_metadata, result.list.id
InfoBodies ==
  {[hasList |-> TRUE, hasMeta |-> TRUE, id |-> i, list_metadata |-> m] :
      i \in {Undef, OtherListId}, m \in {MetaStatus, MetaTwo}}
    \cup {[hasList |-> l, hasMeta |-> FALSE, id |-> Undef, list_metadata |-> <<>>] :
            l \in BOOLEAN}
InfoResponses ==
  {Returned(b) : b \in InfoBodies}
    \cup {Thrown([hasList |-> FALSE, hasMeta |-> FALSE, id |-> Undef, list_metadata |-> <<>>], e) :
            e \in RemoteErrors("slackLists.items.info")}

(***************************************************************************)
(* State                                                                   *)
(***************************************************************************)

VARIABLES
  canon,         \* the canonical cache file of ListId
  legacy,        \* the legacy cache file of ListId
  envPath,       \* process.env.SLACK_LIST_SCHEMA_PATH
  pc,            \* where the current resolveSchemaIndex invocation stands
  cliPath,       \* its schemaPath argument
  refreshCache,  \* its refreshCache argument
  items,         \* its sample items
  schema,        \* the schema it is about to persist
  result,        \* how it ended
  log,           \* its I/O trace: file reads and writes, remote calls
  canon0,        \* the canonical file when it started
  prev           \* how the invocation before it ended

vars == <<canon, legacy, envPath, pc, cliPath, refreshCache, items, schema,
          result, log, canon0, prev>>

\* State of what runs beside resolveSchemaIndex.
VARIABLES
  proc,          \* the cache calls (loadCachedSchema, saveSchemaCache,
                 \* updateSchemaCache) of each process
  lastSaver,     \* the process whose write of the canonical file came last,
                 \* and the schema its call was given or returned
  cmd,           \* the 'items list' / 'items get' command in progress
  roles          \* a schema and the columns resolved for its roles

VARIABLES
  fan,           \* the 'issues list' command and its thread lookups
  conf,          \* the process's memoized configuration and its file
  codec,         \* a field or token handed to the typed field codec
  mut,           \* an 'items create' / 'items update' command
  pager          \* a paginated fetch (fetchAllItems, fetchIssueComments)

\* The variables of the commands that use neither the resolver nor the cache.
otherCommands == <<fan, conf, codec, mut, pager>>

\* The variables resolveSchemaIndex itself does not touch.
besideResolver == <<proc, lastSaver, cmd, roles, otherCommands>>

\* The variables the cache calls do not touch.
besideCache == <<envPath, pc, cliPath, refreshCache, items, schema, result, log,
                 canon0, prev, cmd, roles, otherCommands>>

allVars == <<vars, besideResolver>>

Procs == {1, 2}

\* A value a cache call may return or throw.
NoOutcome == [out |-> "none", schema |-> NoSchema, err |-> NoErr, reads |-> <<>>]

\* What is kept of a completed cache call for the next one to be compared with.
NoPrevCall == [op |-> "none", cand |-> NoSchema, ret |-> NoOutcome]

\* A process's cache call: the operation and its argument, what it loaded
\* and merged, what it returned or threw, and the call the process completed
\* before it.
NoCall ==
  [pc |-> "idle", op |-> "none", cand |-> NoSchema,
   loaded |-> NoOutcome, merged |-> NoSchema, ret |-> NoOutcome,
   prev |-> NoPrevCall]

NoSaver == [p |-> 0, schema |-> NoSchema]

\* What a role resolver ends with: a column, undefined, or a thrown Error.
ColumnOut(c) == [kind |-> "column", col |-> c]
NoColumnOut == [kind |-> "undefined", col |-> Col(Undef, Undef, Undef, NoOptions)]
ThrowsOut == [kind |-> "throw", col |-> Col(Undef, Undef, Undef, NoOptions)]

NoRoles == [schema |-> NoSchema, role |-> "none", out |-> NoColumnOut]

\* What a command writes out: nothing yet, its JSON result, or the error
\* handleCommandError reports. For a listing, column is the column the items
\* were filtered by and index the schema the compact items were built with.
NoGetBody ==
  [hasList |-> FALSE, hasMeta |-> FALSE, id |-> Undef, list_metadata |-> <<>>,
   hasItem |-> FALSE]
NoIndex == [has |-> FALSE, schema |-> NoSchema]
NoOutput ==
  [kind |-> "none", items |-> <<>>, body |-> NoGetBody,
   column |-> NoColumnOut.col, index |-> NoIndex]

\* No item command runs.
NoCmd ==
  [name |-> "none", pc |-> "idle", opt |-> "none", refresh |-> FALSE,
   readOk |-> FALSE, fetched |-> <<>>, body |-> NoGetBody,
   cand |-> NoSchema, merged |-> NoSchema,
   failed |-> "none", ifSaved |-> FileAbsent, before |-> FileAbsent,
   out |-> NoOutput]

\* A thread entry of the thread map; has is FALSE for null.
NoThread == [has |-> FALSE, ts |-> Undef]

NoFan ==
  [pc |-> "idle", compact |-> FALSE, limit |-> 0, collected |-> <<>>, trimmed |-> <<>>,
   started |-> <<>>, slots |-> <<>>, order |-> <<>>,
   out |-> [kind |-> "none", issues |-> <<>>]]

\* A parsed CliConfig: default_channel and lists[ListId].channel; has is
\* FALSE for null.
NoConfig == [has |-> FALSE, default_channel |-> Undef, listChannel |-> Undef]

\* The config file on disk.
ConfigAbsent == [st |-> "absent", doc |-> NoConfig]

NoConf ==
  [env |-> Undef, file |-> ConfigAbsent,
   cached |-> [set |-> FALSE, value |-> NoConfig],
   reads |-> 0, loaded |-> ConfigAbsent, calls |-> 0,
   listId |-> Undef, ret |-> Undef]

\* JavaScript values the codec meets: undefined, null, a string, a number,
\* NaN, an object with a string member value, an object without one.
JsValue(t, s, n) == [t |-> t, s |-> s, n |-> n]
Undefined == JsValue("undefined", "", 0)
Null == JsValue("null", "", 0)
Str(s) == JsValue("str", s, 0)
Num(n) == JsValue("num", "", n)
NaN == JsValue("nan", "", 0)
Infinity == JsValue("inf", "", 0)
ObjWithValue(s) == JsValue("objval", s, 0)
ObjWithout == JsValue("obj", "", 0)

\* A member that is an array (isArray) of elements, or is not an array.
NotArray == [isArray |-> FALSE, elems |-> <<>>]
Array(elems) == [isArray |-> TRUE, elems |-> elems]

\* An item field as the extractors see it: null (has FALSE), or an object
\* with text, rich_text, the tagged member of the extractor, and value.
NoField ==
  [has |-> FALSE, text |-> Undefined, rich |-> NotArray, tagged |-> NotArray,
   value |-> Undefined]

\* What a codec function ends with: null, a boolean, a scalar, an array, or
\* a thrown validation error.
NullOut == [kind |-> "null", b |-> FALSE, v |-> Undefined, arr |-> <<>>]
BoolOut(b) == [NullOut EXCEPT !.kind = "bool", !.b = b]
ScalarOut(v) == [NullOut EXCEPT !.kind = "scalar", !.v = v]
ArrayOut(arr) == [NullOut EXCEPT !.kind = "array", !.arr = arr]
ThrownOut == [NullOut EXCEPT !.kind = "throw"]

NoCodec ==
  [op |-> "none", token |-> "", type |-> "", field |-> NoField, tokens |-> <<>>,
   out |-> NullOut]

\* The items create / items update command before it is invoked.
NoMut ==
  [pc |-> "idle", command |-> "", schemaIndex |-> "", requests |-> <<>>, next |-> 1,
   fields |-> <<>>, cells |-> <<>>, calls |-> 0, out |-> "none"]

\* A paginated fetch before it is called.
NoPager ==
  [pc |-> "idle", op |-> "", service |-> <<>>, last |-> Undef, limitOption |-> Undef,
   limit |-> Undefined, cursor |-> Undef, got |-> <<>>, calls |-> <<>>,
   hasNextPage |-> FALSE, out |-> [kind |-> "none", items |-> <<>>]]

OtherCommandsIdle ==
  /\ fan = NoFan
  /\ conf = NoConf
  /\ codec = NoCodec
  /\ mut = NoMut
  /\ pager = NoPager

\* Nothing runs beside resolveSchemaIndex.
BesideResolverIdle ==
  /\ proc = [p \in Procs |-> NoCall]
  /\ lastSaver = NoSaver
  /\ cmd = NoCmd
  /\ roles = NoRoles
  /\ OtherCommandsIdle

NoResult ==
  [kind |-> "none", index |-> buildSchemaIndex(NoSchema), err |-> NoErr, tier |-> "none"]

IndexResult(s, tier) ==
  [kind |-> "index", index |-> buildSchemaIndex(s), err |-> NoErr, tier |-> tier]

UndefinedResult(tier) ==
  [kind |-> "undefined", index |-> buildSchemaIndex(NoSchema), err |-> NoErr, tier |-> tier]

ThrowResult(e, tier) ==
  [kind |-> "throw", index |-> buildSchemaIndex(NoSchema), err |-> e, tier |-> tier]

\* What is kept of an invocation's outcome for the next one to be compared with.
Summary(r) ==
  [kind |-> r.kind,
   tier |-> IF r.kind = "index" THEN r.tier ELSE "none",
   schema |-> r.index.schema]

Init ==
  /\ canon \in InitCanon
  /\ legacy \in InitLegacy
  /\ envPath \in EnvPaths
  /\ pc = "idle"
  /\ cliPath = Undef
  /\ refreshCache = FALSE
  /\ items = <<>>
  /\ schema = NoSchema
  /\ result = NoResult
  /\ log = <<>>
  /\ canon0 = canon
  /\ prev = Summary(NoResult)
  /\ BesideResolverIdle

(***************************************************************************)
(* resolveSchemaIndex(client, listId, schemaPath, refreshCache)            *)
(***************************************************************************)

\* A catch that lets every describe failure fall through.
DescribeSwallowsAll(e) == FALSE

\* The describe catch written like the item-detail one.
DescribeRethrowsClassifiedOnly(e) ==
  e.data_error # Undef /\ e.data_error # "unknown_method"

\* catch of the describe tier: is the error thrown on?
DescribeRethrows(e) == e.data_error # "unknown_method"

\* catch around the item-detail call: is the error thrown on?
InfoRethrows(e) == e.data_error # Undef /\ e.data_error # "unknown_method"

\* The outer catch written like the item-detail one.
ListRethrowsClassifiedOnly(e) ==
  e.data_error # Undef /\ e.data_error # "unknown_method"

\* An outer catch that throws every error on.
ListRethrowsAll(e) == TRUE

\* catch around the item-listing tier: is the error thrown on?
ListRethrows(e) == e.data_error # "unknown_method"

\* A resolver that consults the cache even when asked to refresh.
FirstTierIgnoresRefresh(resolvedPath, refresh) ==
  IF Truthy(resolvedPath) THEN "loadFile" ELSE "cache"

\* Where the call goes once the override path is resolved.
FirstTier(resolvedPath, refresh) ==
  IF Truthy(resolvedPath) THEN "loadFile"
  ELSE IF ~refresh THEN "cache" ELSE "describe"

\* A describe tier that takes every returned result as a description.
DescribeAcceptsAnyResult(body) == TRUE

\* The describe tier's reading of a returned result.
DescribeAccepts(body) == body.ok

\* The list_id the item-detail tier normalizes with: list.id ?? listId
InfoListId(body) == IF body.id # Undef THEN body.id ELSE ListId

\* Where the call goes with the listed items.
AfterList(its) ==
  IF Truthy(IF its # <<>> THEN its[1].id ELSE Undef) THEN "info" ELSE "infer"

\* Does inference count as having found nothing?
InferenceEmptyNever(inferred) == FALSE

\* inferred.columns.length === 0
InferenceEmpty(inferred) == Len(inferred.columns) = 0

\* An updateSchemaCache that saves the candidate over what is cached.
updateSchemaCacheClobber(loaded, candidate) == candidate

\* An updateSchemaCache that merges the cache into the candidate.
updateSchemaCacheMergeSwapped(loaded, candidate) ==
  mergeSchemas(TRUE, candidate, loaded.schema)

\* mergeSchemas(cached, schema) inside updateSchemaCache.
updateSchemaCacheMerge(loaded, candidate) ==
  mergeSchemas(loaded.out = "schema", loaded.schema, candidate)

\* The invocation ends.
Finish(r) ==
  /\ result' = r
  /\ pc' = "done"

\* The call is entered: its arguments, and the tier it starts with.
StartCall(cp, rc) ==
  /\ pc \in {"idle", "done"}
  /\ cliPath' = cp
  /\ refreshCache' = rc
  /\ items' = <<>>
  /\ schema' = NoSchema
  /\ result' = NoResult
  /\ log' = <<>>
  /\ canon0' = canon
  /\ prev' = IF pc = "done" THEN Summary(result) ELSE prev
  /\ pc' = FirstTier(resolveSchemaPath(cp, envPath), rc)
  /\ UNCHANGED <<canon, legacy, envPath>>

Start(cp, rc) ==
  /\ StartCall(cp, rc)
  /\ UNCHANGED besideResolver

\* Tier 1: the override file.
LoadFile ==
  /\ pc = "loadFile"
  /\ LET path == resolveSchemaPath(cliPath, envPath)
         r == loadSchemaFromFile(path)
     IN  /\ log' = Append(log, Ev("fs.readFile", SchemaFile(path).st))
         /\ IF r.out = "schema"
              THEN Finish(IndexResult(r.schema, "override"))
              ELSE Finish(ThrowResult(r.err, "override"))
  /\ UNCHANGED <<canon, legacy, envPath, cliPath, refreshCache, items, schema, canon0, prev>>
  /\ UNCHANGED besideResolver

\* Tier 2: the cache.
CacheTier ==
  /\ pc = "cache"
  /\ LET r == loadCachedSchema(canon, legacy)
     IN  /\ log' = log \o r.reads
         /\ CASE r.out = "throw" -> Finish(ThrowResult(r.err, "cache"))
              [] r.out = "schema" -> Finish(IndexResult(r.schema, "cache"))
              [] OTHER -> pc' = "describe" /\ UNCHANGED result
  /\ UNCHANGED <<canon, legacy, envPath, cliPath, refreshCache, items, schema, canon0, prev>>
  /\ UNCHANGED besideResolver

\* Tier 3: slackLists.info.
Describe ==
  /\ pc = "describe"
  /\ \E resp \in DescribeResponses :
       /\ log' = Append(log, Ev("slackLists.info",
                                Outcome(resp, IF resp.body.ok THEN "ok" ELSE "notok")))
       /\ IF resp.kind = "throw"
            THEN IF DescribeRethrows(resp.err)
                   THEN Finish(ThrowResult(resp.err, "describe")) /\ UNCHANGED schema
                   ELSE pc' = "list" /\ UNCHANGED <<result, schema>>
            ELSE IF DescribeAccepts(resp.body)
                   THEN /\ schema' = normalizeSchema(resp.body)
                        /\ pc' = "saveDescribe"
                        /\ UNCHANGED result
                   ELSE pc' = "list" /\ UNCHANGED <<result, schema>>
  /\ UNCHANGED <<canon, legacy, envPath, cliPath, refreshCache, items, canon0, prev>>
  /\ UNCHANGED besideResolver

\* saveSchemaCache after a successful describe; the write may fail.
SaveDescribe ==
  /\ pc = "saveDescribe"
  /\ \E written \in BOOLEAN :
       IF written
         THEN /\ canon' = FileOf(schema)
              /\ log' = Append(log, Ev("fs.writeCanon", "ok"))
              /\ Finish(IndexResult(schema, "describe"))
         ELSE LET e == Err(Undef, "EACCES", "fs.writeCanon")
              IN  /\ log' = Append(log, Ev("fs.writeCanon", "EACCES"))
                  /\ UNCHANGED canon
                  /\ IF DescribeRethrows(e)
                       THEN Finish(ThrowResult(e, "describe"))
                       ELSE pc' = "list" /\ UNCHANGED result
  /\ UNCHANGED <<legacy, envPath, cliPath, refreshCache, items, schema, canon0, prev>>
  /\ UNCHANGED besideResolver

\* Tier 4: slackLists.items.list.
List ==
  /\ pc = "list"
  /\ \E resp \in ListResponses :
       /\ log' = Append(log, Ev("slackLists.items.list", Outcome(resp, "ok")))
       /\ IF resp.kind = "throw"
            THEN /\ IF ListRethrows(resp.err)
                      THEN Finish(ThrowResult(resp.err, "list"))
                      ELSE Finish(UndefinedResult("list"))
                 /\ UNCHANGED items
            ELSE /\ items' = resp.body.items
                 /\ pc' = AfterList(resp.body.items)
                 /\ UNCHANGED result
  /\ UNCHANGED <<canon, legacy, envPath, cliPath, refreshCache, schema, canon0, prev>>
  /\ UNCHANGED besideResolver

\* Tier 4: slackLists.items.info on the first item.
Info ==
  /\ pc = "info"
  /\ \E resp \in InfoResponses :
       /\ log' = Append(log, Ev("slackLists.items.info",
                                Outcome(resp, IF resp.body.hasMeta THEN "ok" ELSE "nometa")))
       /\ IF resp.kind = "throw"
            THEN /\ IF InfoRethrows(resp.err)
                      THEN IF ListRethrows(resp.err)
                             THEN Finish(ThrowResult(resp.err, "info"))
                             ELSE Finish(UndefinedResult("info"))
                      ELSE pc' = "infer" /\ UNCHANGED result
                 /\ UNCHANGED schema
            ELSE IF resp.body.hasList /\ resp.body.hasMeta
                   THEN /\ schema' = normalizeSchema(
                                       [list_metadata |-> resp.body.list_metadata,
                                        list_id |-> InfoListId(resp.body)])
                        /\ pc' = "saveInfo"
                        /\ UNCHANGED result
                   ELSE pc' = "infer" /\ UNCHANGED <<result, schema>>
  /\ UNCHANGED <<canon, legacy, envPath, cliPath, refreshCache, items, canon0, prev>>
  /\ UNCHANGED besideResolver

\* saveSchemaCache after item metadata; the write may fail.
SaveInfo ==
  /\ pc = "saveInfo"
  /\ \E written \in BOOLEAN :
       IF written
         THEN /\ canon' = FileOf(schema)
              /\ log' = Append(log, Ev("fs.writeCanon", "ok"))
              /\ Finish(IndexResult(schema, "info"))
         ELSE LET e == Err(Undef, "EACCES", "fs.writeCanon")
              IN  /\ log' = Append(log, Ev("fs.writeCanon", "EACCES"))
                  /\ UNCHANGED canon
                  /\ IF InfoRethrows(e)
                       THEN IF ListRethrows(e)
                              THEN Finish(ThrowResult(e, "info"))
                              ELSE Finish(UndefinedResult("info"))
                       ELSE pc' = "infer" /\ UNCHANGED result
  /\ UNCHANGED <<legacy, envPath, cliPath, refreshCache, items, schema, canon0, prev>>
  /\ UNCHANGED besideResolver

\* Tier 5: inference from the sample items.
Infer ==
  /\ pc = "infer"
  /\ LET inferred == inferSchemaFromItems(ListId, items)
     IN  IF InferenceEmpty(inferred)
           THEN Finish(UndefinedResult("inference")) /\ UNCHANGED schema
           ELSE /\ schema' = inferred
                /\ pc' = "updLoad"
                /\ UNCHANGED result
  /\ UNCHANGED <<canon, legacy, envPath, cliPath, refreshCache, items, log, canon0, prev>>
  /\ UNCHANGED besideResolver

\* updateSchemaCache: load the cached schema and merge.
UpdLoad ==
  /\ pc = "updLoad"
  /\ LET r == loadCachedSchema(canon, legacy)
     IN  /\ log' = log \o r.reads
         /\ IF r.out = "throw"
              THEN /\ IF ListRethrows(r.err)
                        THEN Finish(ThrowResult(r.err, "inference"))
                        ELSE Finish(UndefinedResult("inference"))
                   /\ UNCHANGED schema
              ELSE /\ schema' = updateSchemaCacheMerge(r, schema)
                   /\ pc' = "updSave"
                   /\ UNCHANGED result
  /\ UNCHANGED <<canon, legacy, envPath, cliPath, refreshCache, items, canon0, prev>>
  /\ UNCHANGED besideResolver

\* updateSchemaCache: save the merged schema; the write may fail.
UpdSave ==
  /\ pc = "updSave"
  /\ \E written \in BOOLEAN :
       IF written
         THEN /\ canon' = FileOf(schema)
              /\ log' = Append(log, Ev("fs.writeCanon", "ok"))
              /\ Finish(IndexResult(schema, "inference"))
         ELSE LET e == Err(Undef, "EACCES", "fs.writeCanon")
              IN  /\ log' = Append(log, Ev("fs.writeCanon", "EACCES"))
                  /\ UNCHANGED canon
                  /\ IF ListRethrows(e)
                       THEN Finish(ThrowResult(e, "inference"))
                       ELSE Finish(UndefinedResult("inference"))
  /\ UNCHANGED <<legacy, envPath, cliPath, refreshCache, items, schema, canon0, prev>>
  /\ UNCHANGED besideResolver

Next ==
  \/ \E cp \in CliPaths, rc \in BOOLEAN : Start(cp, rc)
  \/ LoadFile
  \/ CacheTier
  \/ Describe
  \/ SaveDescribe
  \/ List
  \/ Info
  \/ SaveInfo
  \/ Infer
  \/ UpdLoad
  \/ UpdSave

Spec == Init /\ [][Next]_vars

(***************************************************************************)
(* Reading the I/O trace of the current invocation                         *)
(***************************************************************************)

RemoteOps == {"slackLists.info", "slackLists.items.list", "slackLists.items.info"}
CacheOps == {"fs.readCanon", "fs.readLegacy", "fs.writeCanon"}

IsRemote(e) == e.op \in RemoteOps

\* The remote methods called so far, in call order.
RemoteCalls ==
  LET calls == SelectSeq(log, IsRemote)
  IN  [i \in 1..Len(calls) |-> calls[i].op]

Called(op) == \E i \in 1..Len(log) : log[i].op = op

\* The outcome of the call of op, for an op that was called.
OutcomeOf(op) == log[CHOOSE i \in 1..Len(log) : log[i].op = op].out

IsPrefix(s, t) == Len(s) <= Len(t) /\ \A i \in 1..Len(s) : s[i] = t[i]

\* An explicit schema path is in effect: the argument, or failing that the
\* environment value.
OverrideInEffect == Truthy(cliPath) \/ (cliPath = Undef /\ Truthy(envPath))
OverridePath == IF cliPath # Undef THEN cliPath ELSE envPath

\* What loadCachedSchema answered when the invocation started, and answers now.
CachedAtStart == loadCachedSchema(canon0, legacy)
CachedNow == loadCachedSchema(canon, legacy)

FailureOutcomes == {"ratelimited", "unclassified"}

\* The invocation threw the error the call of op raised.
ThrewErrorOf(op) ==
  /\ pc = "done"
  /\ result.kind = "throw"
  /\ result.err.at = op
  /\ (IF result.err.data_error # Undef THEN result.err.data_error ELSE "unclassified")
       = OutcomeOf(op)

(***************************************************************************)
(* Properties of resolveSchemaIndex                                        *)
(***************************************************************************)

\* C1: within one invocation the remote methods are called in the order
\* slackLists.info, slackLists.items.list, slackLists.items.info, each at
\* most once, and a method is called only after the earlier tiers were
\* attempted and fell through: the cache tier (unless refreshing) found
\* nothing, describe was unsupported or not ok, the listing succeeded.
C1_RemoteCallOrder ==
  /\ IsPrefix(RemoteCalls,
              <<"slackLists.info", "slackLists.items.list", "slackLists.items.info">>)
  /\ Called("slackLists.info") /\ ~refreshCache =>
       /\ log[1].op = "fs.readCanon"
       /\ CachedAtStart.out = "null"
  /\ Called("slackLists.items.list") =>
       OutcomeOf("slackLists.info") \in {"unknown_method", "notok"}
  /\ Called("slackLists.items.info") =>
       OutcomeOf("slackLists.items.list") = "ok"

C1_Witness ==
  /\ pc = "done"
  /\ RemoteCalls = <<"slackLists.info", "slackLists.items.list", "slackLists.items.info">>
  /\ result.kind = "index"

\* C2: after a call without override returned an index from the describe,
\* item-metadata or inference tier, the next call without override and
\* without refresh returns an index over the same schema and makes no
\* remote call.
C2_SecondCallServedFromCache ==
  ( /\ pc = "done"
    /\ prev.kind = "index"
    /\ prev.tier \in {"describe", "info", "inference"}
    /\ ~OverrideInEffect
    /\ ~refreshCache )
  => /\ result.kind = "index"
     /\ result.index = buildSchemaIndex(prev.schema)
     /\ RemoteCalls = <<>>

C2_Witness ==
  /\ pc = "done"
  /\ prev.kind = "index"
  /\ prev.tier = "inference"
  /\ Len(prev.schema.columns) = 2
  /\ ~OverrideInEffect
  /\ ~refreshCache
  /\ result.kind = "index"
  /\ result.tier = "cache"

\* C3: with an explicit schema path in effect the call reads the schema
\* file and nothing else (no cache read, no cache write, no remote call),
\* whatever refreshCache and the cache hold, and returns the index of the
\* file's schema.
C3_OverrideBypassesCache ==
  (pc # "idle" /\ OverrideInEffect) =>
    /\ \A i \in 1..Len(log) : log[i].op = "fs.readFile"
    /\ canon = canon0
    /\ (pc = "done" /\ SchemaFile(OverridePath).st = "ok") =>
         /\ log = <<Ev("fs.readFile", "ok")>>
         /\ result.kind = "index"
         /\ result.index = buildSchemaIndex(Parse(SchemaFile(OverridePath).doc))
    /\ (pc = "done" /\ SchemaFile(OverridePath).st # "ok") => result.kind = "throw"

C3_Witness ==
  /\ pc = "done"
  /\ cliPath = Undef
  /\ envPath = "e.json"
  /\ refreshCache
  /\ canon.st = "ok"
  /\ result.kind = "index"
  /\ result.index.schema # Parse(canon.doc)

\* C4: without override, a call that does not refresh and finds a cached
\* schema returns its index with no remote call and no cache write; a call
\* that refreshes skips the cache tier and issues the describe call first,
\* also when a cached schema exists.
C4_CacheTier ==
  (pc = "done" /\ ~OverrideInEffect) =>
    /\ (~refreshCache /\ CachedAtStart.out = "schema") =>
         /\ result = IndexResult(CachedAtStart.schema, "cache")
         /\ RemoteCalls = <<>>
         /\ ~Called("fs.writeCanon")
         /\ canon = canon0
    /\ refreshCache => log[1].op = "slackLists.info"

C4_Witness ==
  /\ pc = "done"
  /\ ~OverrideInEffect
  /\ refreshCache
  /\ CachedAtStart.out = "schema"
  /\ prev.tier = "cache"
  /\ result.tier = "describe"
  /\ result.kind = "index"

\* C5: a describe call failing as unknown_method makes the resolution go on
\* with the item listing; a describe call failing in any other way, also
\* with no classification, makes the call throw that error, with no
\* items.list or items.info call and no cache write.
C5_DescribeFailure ==
  Called("slackLists.info") =>
    /\ OutcomeOf("slackLists.info") = "unknown_method" =>
         pc = "list" \/ Called("slackLists.items.list")
    /\ OutcomeOf("slackLists.info") \in FailureOutcomes =>
         /\ ThrewErrorOf("slackLists.info")
         /\ RemoteCalls = <<"slackLists.info">>
         /\ ~Called("fs.writeCanon")
         /\ canon = canon0

C5_Witness ==
  /\ pc = "done"
  /\ Called("slackLists.info")
  /\ OutcomeOf("slackLists.info") = "unclassified"
  /\ result.kind = "throw"
  /\ canon.st = "ok"

\* C6: an item-detail failure classified unknown_method falls through to
\* inference; every other item-detail failure, also one without any
\* classification, is thrown and inference is not reached.
C6_InfoFailureFatal ==
  Called("slackLists.items.info") =>
    /\ OutcomeOf("slackLists.items.info") = "unknown_method" =>
         pc = "infer" \/ result.tier = "inference" \/ pc \in {"updLoad", "updSave"}
    /\ OutcomeOf("slackLists.items.info") \in FailureOutcomes =>
         ThrewErrorOf("slackLists.items.info")

\* C7: an item-listing failure other than unknown_method is thrown; an
\* item-listing failure classified unknown_method makes the call return
\* undefined, without a throw and without a cache write.
C7_ListFailure ==
  Called("slackLists.items.list") =>
    /\ OutcomeOf("slackLists.items.list") \in FailureOutcomes =>
         ThrewErrorOf("slackLists.items.list")
    /\ OutcomeOf("slackLists.items.list") = "unknown_method" =>
         /\ pc = "done"
         /\ result.kind = "undefined"
         /\ ~Called("fs.writeCanon")
         /\ canon = canon0

C7_Witness ==
  /\ pc = "done"
  /\ Called("slackLists.items.list")
  /\ OutcomeOf("slackLists.items.list") = "unknown_method"
  /\ result.kind = "undefined"
  /\ canon.st = "ok"

\* C8 as stated: whenever a remote call of the invocation raised
\* unknown_method, the invocation ends with an index or with undefined.
C8_UnknownMethodEndsWithoutThrow ==
  (pc = "done" /\ \E i \in 1..Len(log) : log[i].out = "unknown_method")
    => result.kind \in {"index", "undefined"}

\* C8, amended: no invocation throws an error classified unknown_method,
\* and an invocation whose last I/O was a remote call raising unknown_method
\* returns undefined; after an earlier unknown_method the invocation may
\* still throw the error of a later step.
C8_UnknownMethodNeverSurfaced ==
  /\ result.kind = "throw" => result.err.data_error # "unknown_method"
  /\ (pc = "done" /\ log # <<>> /\ log[Len(log)].out = "unknown_method")
       => result.kind = "undefined"

C8_Witness ==
  /\ pc = "done"
  /\ Called("slackLists.items.info")
  /\ OutcomeOf("slackLists.info") = "unknown_method"
  /\ OutcomeOf("slackLists.items.info") = "unknown_method"
  /\ result.kind = "throw"

\* C9: in the inference tier, zero inferred columns (also for an empty item
\* list) give undefined and an untouched cache file; one column or more
\* make the call run updateSchemaCache with the inferred schema and return
\* the index of the merged schema, which is the one persisted.
C9_InferenceTier ==
  (pc = "done" /\ result.tier = "inference") =>
    LET inferred == inferSchemaFromItems(ListId, items)
        merged == mergeSchemas(CachedAtStart.out = "schema", CachedAtStart.schema, inferred)
    IN  /\ Len(inferred.columns) = 0 =>
              /\ result.kind = "undefined"
              /\ canon = canon0
              /\ ~Called("fs.writeCanon") \/ OutcomeOf("fs.writeCanon") # "ok"
        /\ Len(inferred.columns) > 0 =>
              /\ result.kind \in {"index", "throw"}
              /\ result.kind = "index" =>
                   /\ result.index = buildSchemaIndex(merged)
                   /\ canon = FileOf(merged)
              /\ result.kind = "throw" =>
                   /\ result.err.at \in CacheOps
                   /\ canon = canon0

C9_Witness ==
  /\ pc = "done"
  /\ result.tier = "inference"
  /\ result.kind = "index"
  /\ result.index.schema # inferSchemaFromItems(ListId, items)
  /\ canon = FileOf(result.index.schema)

\* C10: when a call ends in the inference tier, also when refreshing, every
\* column id of the schema cached before the call keeps its definition
\* (type and options) in the cache and in the returned index, even when
\* the inferred schema types it differently.
C10_InferenceKeepsCachedColumns ==
  (pc = "done" /\ result.tier = "inference" /\ CachedAtStart.out = "schema") =>
    \A id \in ColIds(CachedAtStart.schema) :
      LET before == ColById(CachedAtStart.schema, id)
      IN  /\ CachedNow.out = "schema"
          /\ id \in ColIds(CachedNow.schema)
          /\ ColById(CachedNow.schema, id).type = before.type
          /\ ColById(CachedNow.schema, id).options = before.options
          /\ result.kind = "index" =>
               /\ id \in DOMAIN result.index.byId
               /\ result.index.byId[id].type = before.type
               /\ result.index.byId[id].options = before.options

C10_Witness ==
  /\ pc = "done"
  /\ result.tier = "inference"
  /\ result.kind = "index"
  /\ refreshCache
  /\ CachedAtStart.out = "schema"
  /\ \E id \in ColIds(CachedAtStart.schema) \cap ColIds(inferSchemaFromItems(ListId, items)) :
       ColById(inferSchemaFromItems(ListId, items), id).type
         # ColById(CachedAtStart.schema, id).type

(***************************************************************************)
(* The schema cache called directly (src/lib/cache.ts)                     *)
(***************************************************************************)

NEW_CACHE_DIR == "ml-agent"
LEGACY_CACHE_DIR == "slack-lists-cli"

\* A save that goes to the legacy directory.
getSchemaCachePathLegacy(listId) == <<LEGACY_CACHE_DIR, "schemas", listId>>

\* getSchemaCachePath(listId): path.join(getCacheDir(), "schemas", listId + ".json")
getSchemaCachePath(listId) == <<NEW_CACHE_DIR, "schemas", listId>>

\* The legacy path loadCachedSchema falls back to.
LegacyCachePath(listId) == <<LEGACY_CACHE_DIR, "schemas", listId>>

\* fs.writeFile(path, content) on the two cache files of ListId.
WriteFile(path, content) ==
  /\ canon' = IF path = <<NEW_CACHE_DIR, "schemas", ListId>> THEN content ELSE canon
  /\ legacy' = IF path = <<LEGACY_CACHE_DIR, "schemas", ListId>> THEN content ELSE legacy

\* loadCachedSchema(listId) as a process calls it, on the files as they are.
LoadNow == loadCachedSchema(canon, legacy)

\* An updateSchemaCache that saves its argument instead of the merge.
updateSchemaCacheSavesCandidate(merged, candidate) == candidate

\* What updateSchemaCache hands to saveSchemaCache: saveSchemaCache(listId, merged)
updateSchemaCacheSaved(merged, candidate) == merged

\* An updateSchemaCache that returns its argument instead of the merge.
updateSchemaCacheReturnsCandidate(merged, candidate) == candidate

\* What updateSchemaCache returns: return merged
updateSchemaCacheReturned(merged, candidate) == merged

\* Schemas a caller may pass to saveSchemaCache / updateSchemaCache.
CandPool ==
  {[list_id |-> ListId,
    columns |-> <<Col("c1", "status", "select", Choices(OptStatus))>>],
   [list_id |-> ListId,
    columns |-> <<Col("c1", "status", "text", NoOptions), Col("c3", "due", "date", NoOptions)>>],
   [list_id |-> ListId,
    columns |-> <<Col("c2", "owner", "user", NoOptions)>>],
   [list_id |-> ListId, columns |-> <<>>]}

Void == [out |-> "void", schema |-> NoSchema, err |-> NoErr, reads |-> <<>>]
ReturnsSchema(s) == [out |-> "schema", schema |-> s, err |-> NoErr, reads |-> <<>>]
Throws(e) == [out |-> "throw", schema |-> NoSchema, err |-> e, reads |-> <<>>]

CallSummary(c) == [op |-> c.op, cand |-> c.cand, ret |-> c.ret]

\* Process p enters a cache call.
Enter(p, op, cand) ==
  [NoCall EXCEPT !.op = op, !.cand = cand, !.prev = CallSummary(proc[p])]

\* loadCachedSchema(listId)
CallLoad(p) ==
  /\ proc[p].pc = "idle"
  /\ proc' = [proc EXCEPT ![p] =
                [Enter(p, "load", NoSchema) EXCEPT !.loaded = LoadNow, !.ret = LoadNow]]
  /\ UNCHANGED <<canon, legacy, lastSaver>>
  /\ UNCHANGED besideCache

\* saveSchemaCache(listId, schema): mkdir and writeFile; the write may fail.
CallSave(p, s, written) ==
  /\ proc[p].pc = "idle"
  /\ IF written
       THEN /\ WriteFile(getSchemaCachePath(ListId), FileOf(s))
            /\ lastSaver' = [p |-> p, schema |-> s]
            /\ proc' = [proc EXCEPT ![p] = [Enter(p, "save", s) EXCEPT !.ret = Void]]
       ELSE /\ UNCHANGED <<canon, legacy, lastSaver>>
            /\ proc' = [proc EXCEPT ![p] =
                          [Enter(p, "save", s) EXCEPT
                             !.ret = Throws(Err(Undef, "EACCES", "fs.writeCanon"))]]
  /\ UNCHANGED besideCache

\* updateSchemaCache(listId, schema): loadCachedSchema, then mergeSchemas.
UpdateLoad(p, cand) ==
  /\ proc[p].pc = "idle"
  /\ proc' = [proc EXCEPT ![p] =
                IF LoadNow.out = "throw"
                  THEN [Enter(p, "update", cand) EXCEPT
                          !.loaded = LoadNow, !.ret = Throws(LoadNow.err)]
                  ELSE [Enter(p, "update", cand) EXCEPT
                          !.pc = "save",
                          !.loaded = LoadNow,
                          !.merged = updateSchemaCacheMerge(LoadNow, cand)]]
  /\ UNCHANGED <<canon, legacy, lastSaver>>
  /\ UNCHANGED besideCache

\* updateSchemaCache(listId, schema): saveSchemaCache(listId, merged); return merged.
UpdateSave(p, written) ==
  /\ proc[p].pc = "save"
  /\ IF written
       THEN /\ WriteFile(getSchemaCachePath(ListId),
                         FileOf(updateSchemaCacheSaved(proc[p].merged, proc[p].cand)))
            /\ lastSaver' = [p |-> p,
                              schema |-> updateSchemaCacheReturned(proc[p].merged, proc[p].cand)]
            /\ proc' = [proc EXCEPT
                          ![p].pc = "idle",
                          ![p].ret = ReturnsSchema(
                                       updateSchemaCacheReturned(proc[p].merged, proc[p].cand))]
       ELSE /\ UNCHANGED <<canon, legacy, lastSaver>>
            /\ proc' = [proc EXCEPT ![p].pc = "idle",
                                    ![p].ret = Throws(Err(Undef, "EACCES", "fs.writeCanon"))]
  /\ UNCHANGED besideCache

\* resolveSchemaIndex is not running.
ResolverIdle ==
  /\ envPath = Undef
  /\ pc = "idle"
  /\ cliPath = Undef
  /\ refreshCache = FALSE
  /\ items = <<>>
  /\ schema = NoSchema
  /\ result = NoResult
  /\ log = <<>>
  /\ canon0 = canon
  /\ prev = Summary(NoResult)

InitCache ==
  /\ canon \in InitCanon
  /\ legacy \in InitLegacy
  /\ ResolverIdle
  /\ BesideResolverIdle

\* One process calling the cache functions one after another.
NextCache ==
  \/ CallLoad(1)
  \/ \E s \in CandPool, written \in BOOLEAN : CallSave(1, s, written)
  \/ \E cand \in CandPool : UpdateLoad(1, cand)
  \/ \E written \in BOOLEAN : UpdateSave(1, written)

SpecCache == InitCache /\ [][NextCache]_allVars

\* One process calling updateSchemaCache again and again.
NextUpdates ==
  \/ \E cand \in CandPool : UpdateLoad(1, cand)
  \/ \E written \in BOOLEAN : UpdateSave(1, written)

SpecUpdates == InitCache /\ [][NextUpdates]_allVars

\* What the racing processes pass to updateSchemaCache.
RaceCands ==
  {[list_id |-> ListId,
    columns |-> <<Col("c1", "status", "text", NoOptions), Col("c3", "due", "date", NoOptions)>>],
   [list_id |-> ListId,
    columns |-> <<Col("c2", "owner", "user", NoOptions)>>]}

InitRace ==
  /\ canon \in {FileAbsent, FileOf(CachedConfirmed)}
  /\ legacy \in {FileAbsent, FileOf(CachedLegacy)}
  /\ ResolverIdle
  /\ BesideResolverIdle

\* Two processes calling updateSchemaCache concurrently.
NextRace ==
  \/ \E p \in Procs, cand \in RaceCands : UpdateLoad(p, cand)
  \/ \E p \in Procs, written \in BOOLEAN : UpdateSave(p, written)

SpecRace == InitRace /\ [][NextRace]_allVars

(***************************************************************************)
(* Properties of the schema cache                                          *)
(***************************************************************************)

\* The latest cache call of the one process of SpecCache and SpecUpdates.
TheCall == proc[1]

Completed(c, op) == c.op = op /\ c.pc = "idle"

HasUniqueIds(s) ==
  \A i, j \in 1..Len(s.columns) : s.columns[i].id = s.columns[j].id => i = j

\* C11: loadCachedSchema returns the canonical file's schema when that file
\* is readable, reading nothing else; reads the legacy file only after the
\* canonical read failed as not found; returns null when both are absent;
\* throws every other failure, a canonical one without trying the legacy file.
C11_LoadCachedSchema ==
  Completed(TheCall, "load") =>
    LET r == TheCall.ret
    IN  /\ canon.st = "ok" =>
             /\ r.out = "schema"
             /\ r.schema = Parse(canon.doc)
             /\ r.reads = <<Ev("fs.readCanon", "ok")>>
        /\ canon.st = "bad" =>
             /\ r.out = "throw"
             /\ r.err.at = "fs.readCanon"
             /\ r.reads = <<Ev("fs.readCanon", "bad")>>
        /\ canon.st = "absent" =>
             /\ r.reads = <<Ev("fs.readCanon", "absent"), Ev("fs.readLegacy", legacy.st)>>
             /\ legacy.st = "ok" => r.out = "schema" /\ r.schema = Parse(legacy.doc)
             /\ legacy.st = "absent" => r.out = "null"
             /\ legacy.st = "bad" => r.out = "throw" /\ r.err.at = "fs.readLegacy"

C11_Witness ==
  /\ Completed(TheCall, "load")
  /\ canon.st = "bad"
  /\ legacy.st = "ok"
  /\ TheCall.ret.out = "throw"
  /\ TheCall.prev.op = "update"

\* C12: every step that changes a cache file is a saveSchemaCache or
\* updateSchemaCache step and changes the canonical file of the list it was
\* called for; the legacy file never changes; loadCachedSchema writes nothing.
C12_WritesOnlyCanonical ==
  [][ /\ legacy' = legacy
      /\ canon' # canon =>
           /\ TheCall'.op \in {"save", "update"}
           /\ TheCall'.pc = "idle"
           /\ canon' = FileOf(lastSaver'.schema)
      /\ TheCall'.op = "load" => canon' = canon ]_allVars

C12_Witness ==
  /\ Completed(TheCall, "update")
  /\ TheCall.ret.out = "schema"
  /\ TheCall.loaded.reads
       = <<Ev("fs.readCanon", "absent"), Ev("fs.readLegacy", "ok")>>
  /\ canon.st = "ok"
  /\ legacy = FileOf(CachedLegacy)

\* C13: an updateSchemaCache that ran alone leaves the canonical file equal
\* to what it returns: the columns of the schema it loaded, in their order
\* and with their definitions, followed by the candidate's columns whose ids
\* were not among them, in candidate order.
C13_UpdateSchemaCache ==
  (Completed(TheCall, "update") /\ TheCall.ret.out = "schema") =>
    LET old == IF TheCall.loaded.out = "schema" THEN TheCall.loaded.schema.columns ELSE <<>>
        IsNew(col) == \A i \in 1..Len(old) : old[i].id # col.id
    IN  /\ canon = FileOf(TheCall.ret.schema)
        /\ TheCall.ret.schema.columns = old \o SelectSeq(TheCall.cand.columns, IsNew)

C13_Witness ==
  /\ Completed(TheCall, "update")
  /\ TheCall.ret.out = "schema"
  /\ TheCall.loaded.out = "schema"
  /\ Len(TheCall.ret.schema.columns) > Len(TheCall.loaded.schema.columns)
  /\ ColIds(TheCall.cand) \cap ColIds(TheCall.loaded.schema) # {}

\* C14: over updateSchemaCache calls made one after another, a column id
\* that the cache holds keeps its type in every later state, also when a
\* later candidate types it differently, and the ids of the cached schema
\* stay unique.
C14_TypesNeverChange ==
  /\ [](canon.st = "ok" => HasUniqueIds(Parse(canon.doc)))
  /\ [][ LoadNow.out = "schema" =>
           \A id \in ColIds(LoadNow.schema) :
             LET after == loadCachedSchema(canon', legacy')
             IN  /\ after.out = "schema"
                 /\ id \in ColIds(after.schema)
                 /\ ColById(after.schema, id).type = ColById(LoadNow.schema, id).type
       ]_allVars

C14_Witness ==
  /\ Completed(TheCall, "update")
  /\ TheCall.ret.out = "schema"
  /\ TheCall.prev.ret.out = "schema"
  /\ \E id \in ColIds(TheCall.cand) \cap ColIds(TheCall.loaded.schema) :
       ColById(TheCall.cand, id).type # ColById(TheCall.loaded.schema, id).type

\* C15: merge(A, merge(A, B)) = merge(A, B) for the schema A an update
\* loaded and its candidate B; and an updateSchemaCache that follows one
\* with the same candidate returns the same schema and leaves the same file.
C15_UpdateIdempotent ==
  (Completed(TheCall, "update") /\ TheCall.ret.out = "schema") =>
    LET hasA == TheCall.loaded.out = "schema"
        A == TheCall.loaded.schema
        B == TheCall.cand
    IN  /\ mergeSchemas(hasA, A, mergeSchemas(hasA, A, B)) = mergeSchemas(hasA, A, B)
        /\ ( /\ TheCall.prev.op = "update"
             /\ TheCall.prev.cand = B
             /\ TheCall.prev.ret.out = "schema" )
           => /\ TheCall.ret.schema = TheCall.prev.ret.schema
              /\ canon = FileOf(TheCall.prev.ret.schema)

C15_Witness ==
  /\ Completed(TheCall, "update")
  /\ TheCall.ret.out = "schema"
  /\ TheCall.prev.op = "update"
  /\ TheCall.prev.cand = TheCall.cand
  /\ TheCall.prev.ret.out = "schema"
  /\ TheCall.ret.schema # TheCall.cand
  /\ \E i \in 1..Len(TheCall.ret.schema.columns) :
       TheCall.ret.schema.columns[i].options.defined

\* C16: with two processes in updateSchemaCache at once (load and merge,
\* then save), the canonical file always holds the merged schema of the
\* process that saved last.
C16_LastWriterWins ==
  lastSaver.p # 0 => canon = FileOf(lastSaver.schema)

\* Both processes saved, process 1 last, and a column only process 2
\* contributed is gone from the file.
C16_Witness ==
  /\ lastSaver.p = 1
  /\ Completed(proc[1], "update")
  /\ Completed(proc[2], "update")
  /\ proc[2].ret.out = "schema"
  /\ canon = FileOf(proc[1].ret.schema)
  /\ \E id \in ColIds(proc[2].cand) :
       /\ id \notin ColIds(proc[1].cand)
       /\ id \notin ColIds(Parse(canon.doc))

(***************************************************************************)
(* The cache as seen from resolveSchemaIndex                               *)
(***************************************************************************)

\* A refreshing invocation without override returned an index.
RefreshedIndex ==
  /\ pc = "done"
  /\ refreshCache
  /\ ~OverrideInEffect
  /\ result.kind = "index"

ReadCache(e) == e.op \in {"fs.readCanon", "fs.readLegacy"}

\* What the remote responses of the invocation give when no cache file
\* exists: the normalized describe or item metadata, or the schema inferred
\* from the listed items.
FromRemoteAlone ==
  IF result.tier = "inference" THEN inferSchemaFromItems(ListId, items) ELSE schema

\* C17 as stated: with refresh and no override the returned schema is the
\* one the remote responses give from an empty cache, whatever the cache held.
C17_RefreshIndependentOfCache ==
  RefreshedIndex => result.index.schema = FromRemoteAlone

\* C17: with refresh and no override, an index from the describe or the
\* item-metadata tier is the normalized response, returned without a cache
\* read; an index from the inference tier is the cached schema merged with
\* the schema inferred from the listed items.
C17_RefreshIndex ==
  RefreshedIndex =>
    /\ result.tier \in {"describe", "info", "inference"}
    /\ result.tier \in {"describe", "info"} =>
         /\ SelectSeq(log, ReadCache) = <<>>
         /\ result.index.schema = schema
    /\ result.tier = "inference" =>
         result.index.schema
           = mergeSchemas(CachedAtStart.out = "schema", CachedAtStart.schema,
                          inferSchemaFromItems(ListId, items))

C17_Witness ==
  /\ RefreshedIndex
  /\ result.tier = "inference"
  /\ CachedAtStart.out = "schema"
  /\ result.index.schema # inferSchemaFromItems(ListId, items)

CacheFailed(e) == e.op \in CacheOps /\ e.out \notin {"ok", "absent"}

\* C18: an invocation in which a cache read or write failed other than as
\* file absent ends by throwing.
C18_CacheFailurePropagates ==
  (pc = "done" /\ SelectSeq(log, CacheFailed) # <<>>) => result.kind = "throw"

(***************************************************************************)
(* Role columns of the item commands (src/commands/items.ts)               *)
(***************************************************************************)

\* Longest schema the role resolvers are tried on.
MaxCols == 2

\* findColumnByType(index, types): the first column whose type is among types.
findColumnByType(index, types) ==
  LET OfType(c) == c.type \in types
      hits == SelectSeq(index.schema.columns, OfType)
  IN  IF hits = <<>> THEN NoColumnOut ELSE ColumnOut(hits[1])

\* findColumnByKeyOrName(index, keys): the column matching the first of the
\* keys that any column matches.
findColumnByKeyOrName(index, keys) ==
  LET cols == index.schema.columns
      Hit(k) == \E i \in 1..Len(cols) : cols[i].key = keys[k]
      ks == {k \in 1..Len(keys) : Hit(k)}
  IN  IF ks = {} THEN NoColumnOut
      ELSE LET k == CHOOSE x \in ks : \A y \in ks : x <= y
               i == CHOOSE x \in 1..Len(cols) :
                      /\ cols[x].key = keys[k]
                      /\ \A y \in 1..Len(cols) : cols[y].key = keys[k] => x <= y
           IN  ColumnOut(cols[i])

pickSelectColumn(index, keys) ==
  LET byKey == findColumnByKeyOrName(index, keys)
      IsSelect(c) == c.type = "select"
      selects == SelectSeq(index.schema.columns, IsSelect)
  IN  IF byKey.kind = "column" THEN byKey
      ELSE IF Len(selects) = 1 THEN ColumnOut(selects[1])
      ELSE IF Len(selects) > 1 THEN ThrowsOut
      ELSE NoColumnOut

resolveStatusColumn(index) ==
  LET todoCompleted == findColumnByType(index, {"todo_completed"})
  IN  IF todoCompleted.kind = "column" THEN todoCompleted
      ELSE pickSelectColumn(index, <<"status", "state">>)

resolvePriorityColumn(index) == pickSelectColumn(index, <<"priority">>)

resolveAssigneeColumn(index) ==
  LET byType == findColumnByType(index, {"todo_assignee", "user"})
  IN  IF byType.kind = "column" THEN byType
      ELSE findColumnByKeyOrName(index, <<"assignee", "owner">>)

resolveDueColumn(index) ==
  LET byType == findColumnByType(index, {"todo_due_date", "date"})
  IN  IF byType.kind = "column" THEN byType
      ELSE findColumnByKeyOrName(index, <<"due", "due_date">>)

Roles == {"status", "priority", "assignee", "due"}

resolveRole(role, index) ==
  CASE role = "status" -> resolveStatusColumn(index)
    [] role = "priority" -> resolvePriorityColumn(index)
    [] role = "assignee" -> resolveAssigneeColumn(index)
    [] role = "due" -> resolveDueColumn(index)

\* The column types a role's resolver looks for.
RoleTypes(role) ==
  CASE role = "status" -> {"todo_completed", "select"}
    [] role = "priority" -> {"select"}
    [] role = "assignee" -> {"todo_assignee", "user"}
    [] role = "due" -> {"todo_due_date", "date"}

\* The keys and names a role's resolver looks for.
RoleAliases(role) ==
  CASE role = "status" -> {"status", "state"}
    [] role = "priority" -> {"priority"}
    [] role = "assignee" -> {"assignee", "owner"}
    [] role = "due" -> {"due", "due_date"}

\* Columns the schemas of the role resolvers are made of.
RoleColumns ==
  {Col("c1", "phase", "select", Choices(OptStatus)),
   Col("c2", "stage", "select", Choices(OptStatus)),
   Col("c3", "reviewer", "user", NoOptions), Col("c4", "approver", "user", NoOptions),
   Col("c5", "started", "date", NoOptions), Col("c6", "ended", "date", NoOptions),
   Col("c7", "done", "todo_completed", NoOptions), Col("c8", "owner", "text", NoOptions),
   Col("c9", "status", "text", NoOptions),
   Col("c10", "state", "select", Choices(OptStatus))}

RoleSchemas ==
  {[list_id |-> ListId, columns |-> cols] :
     cols \in {c \in UNION {[1..n -> RoleColumns] : n \in 0..MaxCols} :
                 \A i, j \in 1..Len(c) : c[i].id = c[j].id => i = j}}

InitRoles ==
  /\ canon = FileAbsent
  /\ legacy = FileAbsent
  /\ ResolverIdle
  /\ proc = [p \in Procs |-> NoCall]
  /\ lastSaver = NoSaver
  /\ cmd = NoCmd
  /\ OtherCommandsIdle
  /\ roles \in {[NoRoles EXCEPT !.schema = s] : s \in RoleSchemas}

\* A command resolves the column of a role over the index of its schema.
ResolveRole(role) ==
  /\ roles.role = "none"
  /\ roles' = [roles EXCEPT !.role = role,
                            !.out = resolveRole(role, buildSchemaIndex(roles.schema))]
  /\ UNCHANGED <<vars, proc, lastSaver, cmd, otherCommands>>

NextRoles == \E role \in Roles : ResolveRole(role)

SpecRoles == InitRoles /\ [][NextRoles]_allVars

\* The columns of the resolved schema that qualify for the role by type.
QualifyingByType ==
  {i \in 1..Len(roles.schema.columns) : roles.schema.columns[i].type \in RoleTypes(roles.role)}

AliasMatch ==
  \E i \in 1..Len(roles.schema.columns) :
    roles.schema.columns[i].key \in RoleAliases(roles.role)

\* C20: when more than one column qualifies for the resolved role by type
\* and no column matches the role's aliases, the resolver throws instead of
\* returning one of them.
C20_AmbiguousRoleFails ==
  (roles.role \in Roles /\ Cardinality(QualifyingByType) > 1 /\ ~AliasMatch)
    => roles.out.kind = "throw"

\* findStatusColumn(index): the column the compact output reads the status
\* of an item from.
findStatusColumn(index) ==
  LET byKey == findColumnByKeyOrName(index, <<"status", "state">>)
  IN  IF byKey.kind = "column" THEN byKey
      ELSE findColumnByType(index, {"todo_completed"})

\* C39: the column 'items list' filters by --status on is the column the
\* compact output shows as status, also for a schema holding both a select
\* column named status or state and a todo_completed column.
C39_SameStatusColumn ==
  (roles.role = "status" /\ roles.out.kind = "column")
    => findStatusColumn(buildSchemaIndex(roles.schema)) = roles.out

(***************************************************************************)
(* items get and items list (src/commands/items.ts)                        *)
(***************************************************************************)

\* A best-effort catch that throws the error on.
BestEffortCatchRethrowsAll(e) == TRUE

\* catch {} around the opportunistic cache updates: is the error thrown on?
BestEffortCatchRethrows(e) == FALSE

\* What fetchAllItems may return; the pages of the listing are taken together.
FetchedLists == {<<i>> : i \in ItemPool} \cup {<<>>}

FetchResponses ==
  {Returned([hasItems |-> TRUE, items |-> is]) : is \in FetchedLists}
    \cup {Thrown([hasItems |-> FALSE, items |-> <<>>],
                 Err("ratelimited", Undef, "slackLists.items.list"))}

\* slackLists.items.info as items get reads it: result.list and result.item.
GetBodies == {b @@ [hasItem |-> i] : b \in InfoBodies, i \in BOOLEAN}

GetResponses ==
  {Returned(b) : b \in GetBodies}
    \cup {Thrown(NoGetBody, Err("ratelimited", Undef, "slackLists.items.info"))}

\* The item of an items.info result.
GotItem == [id |-> "I1", fields |-> <<Field("c1", "status", "select")>>]

\* Options of items list that need a schema index: --status, --compact.
ListOptions == {"none", "status", "compact"}

Failure == [NoOutput EXCEPT !.kind = "fail"]

\* outputJson(result) of items get.
GetOutput(body) == [NoOutput EXCEPT !.kind = "emit", !.body = body]

\* What items list ends with, given the fetched items and the outcome res of
\* resolveSchemaIndex (not called without --status / --compact).
ListOutput(opt, fetched, res) ==
  LET emitted == [NoOutput EXCEPT !.kind = "emit", !.items = fetched]
  IN  CASE opt = "none" -> emitted
        [] opt # "none" /\ res.kind = "throw" -> Failure
        [] opt = "status" /\ res.kind = "undefined" -> Failure
        [] opt = "status" /\ res.kind = "index" ->
             LET c == resolveStatusColumn(res.index)
             IN  IF c.kind = "column" THEN [emitted EXCEPT !.column = c.col] ELSE Failure
        [] opt = "compact" /\ res.kind = "undefined" -> emitted
        [] opt = "compact" /\ res.kind = "index" ->
             [emitted EXCEPT !.index = [has |-> TRUE, schema |-> res.index.schema]]
        [] OTHER -> Failure

\* Where a command goes once an opportunistic update is over.
AfterUpdate(c) ==
  CASE c.pc \in {"metaLoad", "metaSave"} /\ c.body.hasItem -> "syncLoad"
    [] c.pc \in {"metaLoad", "metaSave"} /\ ~c.body.hasItem -> "emit"
    [] c.pc \in {"syncLoad", "syncSave"} /\ c.name = "list" /\ c.opt # "none" -> "resolve"
    [] OTHER -> "emit"

Noted(c, step) == IF c.failed = "none" THEN step ELSE c.failed

InitItems ==
  /\ canon \in {FileAbsent, FileBad, FileOf(CachedOther)}
  /\ legacy = FileAbsent
  /\ ResolverIdle
  /\ BesideResolverIdle

\* The command line: items get, or items list with its options.
CmdStart(name, opt, refresh) ==
  /\ cmd.pc = "idle"
  /\ cmd' = [cmd EXCEPT !.name = name, !.opt = opt, !.refresh = refresh,
                        !.pc = "read", !.before = canon]
  /\ UNCHANGED <<vars, proc, lastSaver, roles, otherCommands>>

\* items list: fetchAllItems, then syncSchemaCache(listId, items).
CmdFetch ==
  /\ cmd.name = "list"
  /\ cmd.pc = "read"
  /\ \E resp \in FetchResponses :
       IF resp.kind = "throw"
         THEN cmd' = [cmd EXCEPT !.pc = "done", !.out = Failure]
         ELSE cmd' = [cmd EXCEPT !.readOk = TRUE,
                                 !.fetched = resp.body.items,
                                 !.cand = inferSchemaFromItems(ListId, resp.body.items),
                                 !.pc = "syncLoad"]
  /\ UNCHANGED <<vars, proc, lastSaver, roles, otherCommands>>

\* items get: slackLists.items.info, then the update from list_metadata
\* when the result has it, else syncSchemaCache(listId, [item]).
CmdGet ==
  /\ cmd.name = "get"
  /\ cmd.pc = "read"
  /\ \E resp \in GetResponses :
       IF resp.kind = "throw"
         THEN cmd' = [cmd EXCEPT !.pc = "done", !.out = Failure]
         ELSE cmd' = [cmd EXCEPT
                 !.readOk = TRUE,
                 !.body = resp.body,
                 !.cand = IF resp.body.hasList /\ resp.body.hasMeta
                            THEN normalizeSchema([list_metadata |-> resp.body.list_metadata,
                                                  list_id |-> InfoListId(resp.body)])
                            ELSE inferSchemaFromItems(ListId, <<GotItem>>),
                 !.pc = IF resp.body.hasList /\ resp.body.hasMeta THEN "metaLoad"
                        ELSE IF resp.body.hasItem THEN "syncLoad" ELSE "emit"]
  /\ UNCHANGED <<vars, proc, lastSaver, roles, otherCommands>>

\* updateSchemaCache inside a best-effort try: load the cache and merge.
CmdUpdLoad ==
  /\ cmd.pc \in {"metaLoad", "syncLoad"}
  /\ LET r == loadCachedSchema(canon, legacy)
         cand == IF cmd.name = "get" /\ cmd.pc = "syncLoad"
                   THEN inferSchemaFromItems(ListId, <<GotItem>>) ELSE cmd.cand
     IN  IF r.out = "throw"
           THEN IF BestEffortCatchRethrows(r.err)
                  THEN cmd' = [cmd EXCEPT !.pc = "done", !.out = Failure]
                  ELSE cmd' = [cmd EXCEPT !.pc = AfterUpdate(cmd),
                                          !.failed = Noted(cmd, "load")]
           ELSE cmd' = [cmd EXCEPT !.cand = cand,
                                   !.merged = updateSchemaCacheMerge(r, cand),
                                   !.pc = IF cmd.pc = "metaLoad" THEN "metaSave" ELSE "syncSave"]
  /\ UNCHANGED <<vars, proc, lastSaver, roles, otherCommands>>

\* updateSchemaCache inside a best-effort try: save the merge; the write may fail.
CmdUpdSave ==
  /\ cmd.pc \in {"metaSave", "syncSave"}
  /\ \E written \in BOOLEAN :
       IF written
         THEN /\ WriteFile(getSchemaCachePath(ListId),
                           FileOf(updateSchemaCacheSaved(cmd.merged, cmd.cand)))
              /\ cmd' = [cmd EXCEPT !.pc = AfterUpdate(cmd)]
         ELSE /\ UNCHANGED <<canon, legacy>>
              /\ IF BestEffortCatchRethrows(Err(Undef, "EACCES", "fs.writeCanon"))
                   THEN cmd' = [cmd EXCEPT !.pc = "done", !.out = Failure]
                   ELSE cmd' = [cmd EXCEPT
                                  !.pc = AfterUpdate(cmd),
                                  !.failed = Noted(cmd, "save"),
                                  !.ifSaved = IF cmd.failed = "none"
                                                THEN FileOf(cmd.merged) ELSE cmd.ifSaved]
  /\ UNCHANGED <<envPath, pc, cliPath, refreshCache, items, schema, result, log, canon0, prev>>
  /\ UNCHANGED <<proc, lastSaver, roles, otherCommands>>

\* items list --status / --compact: resolveSchemaIndex(client, listId,
\* globals.schema, globals.refreshSchema), with no --schema given.
CmdResolve ==
  /\ cmd.pc = "resolve"
  /\ StartCall(Undef, cmd.refresh)
  /\ cmd' = [cmd EXCEPT !.pc = "resolving"]
  /\ UNCHANGED <<proc, lastSaver, roles, otherCommands>>

\* The command writes its result, or the error of the schema resolution.
CmdEmit ==
  /\ \/ cmd.pc = "emit"
     \/ cmd.pc = "resolving" /\ pc = "done"
  /\ cmd' = [cmd EXCEPT
               !.pc = "done",
               !.out = IF cmd.name = "get" THEN GetOutput(cmd.body)
                       ELSE ListOutput(cmd.opt, cmd.fetched, result)]
  /\ UNCHANGED <<vars, proc, lastSaver, roles, otherCommands>>

NextItems ==
  \/ \E opt \in ListOptions, refresh \in BOOLEAN : CmdStart("list", opt, refresh)
  \/ CmdStart("get", "none", FALSE)
  \/ CmdFetch
  \/ CmdGet
  \/ CmdUpdLoad
  \/ CmdUpdSave
  \/ CmdResolve
  \/ CacheTier
  \/ Describe
  \/ SaveDescribe
  \/ List
  \/ Info
  \/ SaveInfo
  \/ Infer
  \/ UpdLoad
  \/ UpdSave
  \/ CmdEmit

SpecItems == InitItems /\ [][NextItems]_allVars

\* The primary read of the command succeeded and the command is over.
CmdOver == cmd.pc = "done" /\ cmd.readOk

\* What the command writes when the update whose save failed had been saved:
\* a listing with --status or --compact, no --schema and no refresh then
\* gets the index of the saved schema from the cache tier.
AsIfUpdated ==
  IF cmd.name = "get" THEN GetOutput(cmd.body)
  ELSE ListOutput(cmd.opt, cmd.fetched,
                  IndexResult(loadCachedSchema(cmd.ifSaved, legacy).schema, "cache"))

\* C19 as stated: a command whose opportunistic update failed (here: at the
\* save) writes the result it would have written had the update succeeded.
C19_EmitsAsIfUpdated ==
  (CmdOver /\ cmd.failed = "save" /\ ~cmd.refresh) => cmd.out = AsIfUpdated

\* C19: a failure of an opportunistic update is never the command's failure:
\* items get writes the item result, items list without --status / --compact
\* writes the fetched items, and items list with one of them writes what the
\* schema resolution made after the update gives, which started from the
\* cache file the failed update left as it was.
C19_UpdateFailureSwallowed ==
  CmdOver =>
    /\ cmd.name = "get" => cmd.out = GetOutput(cmd.body)
    /\ (cmd.name = "list" /\ cmd.opt = "none") =>
         cmd.out = [NoOutput EXCEPT !.kind = "emit", !.items = cmd.fetched]
    /\ (cmd.name = "list" /\ cmd.opt # "none") =>
         /\ cmd.out = ListOutput(cmd.opt, cmd.fetched, result)
         /\ cmd.failed # "none" => canon0 = cmd.before

\* The save of the update failed and a listing by status ends in an error
\* where the saved update would have let it write its items.
C19_Witness ==
  /\ CmdOver
  /\ cmd.name = "list"
  /\ cmd.opt = "status"
  /\ cmd.failed = "save"
  /\ ~cmd.refresh
  /\ cmd.out.kind = "fail"
  /\ AsIfUpdated.kind = "emit"

(***************************************************************************)
(* Legacy cache path                                                       *)
(***************************************************************************)

\* The latest loadCachedSchema call returned the schema of the legacy file.
ServedFromLegacy ==
  /\ Completed(TheCall, "load")
  /\ TheCall.ret.out = "schema"
  /\ TheCall.ret.reads = <<Ev("fs.readCanon", "absent"), Ev("fs.readLegacy", "ok")>>

\* C21: once loadCachedSchema has returned a schema that only the legacy
\* file held, the canonical file holds that schema.
C21_LegacyReadUpgrades ==
  ServedFromLegacy => canon = FileOf(TheCall.ret.schema)

(***************************************************************************)
(* issues list --compact: thread lookups (src/commands/issues.ts)          *)
(***************************************************************************)

\* Most issues the paging loop collects, and the largest --limit.
MaxIssues == 3
MaxLimit == 2

IssueIds == {"A", "B", "C", "D"}

\* What the paging loop may have collected: issues with distinct ids.
CollectedLists ==
  {c \in UNION {[1..n -> IssueIds] : n \in 0..MaxIssues} :
     \A i, j \in 1..Len(c) : c[i] = c[j] => i = j}

\* getThreadEntry(scope, issueId) on the thread map: an entry, or null.
getThreadEntry(id) ==
  IF id \in {"A", "C"} THEN [has |-> TRUE, ts |-> id] ELSE NoThread

\* collected.slice(0, limit)
Trimmed(collected, limit) ==
  SubSeq(collected, 1, IF Len(collected) < limit THEN Len(collected) ELSE limit)

\* A Promise.all that hands out results in completion order.
ResultSlotByCompletion(i, order) == order[i]

\* Promise.all: the i-th result is the value of the i-th promise.
ResultSlot(i, order) == i

PendingSlot == [st |-> "pending", thread |-> NoThread]

\* The action runs up to the await of Promise.all: trimmed.map has called
\* getThreadEntry for each issue of the trimmed batch, in order.
FanStart(compact, limit, collected) ==
  /\ fan.pc = "idle"
  /\ LET trimmed == Trimmed(collected, limit)
     IN  fan' = [fan EXCEPT
                   !.pc = "lookups",
                   !.compact = compact,
                   !.limit = limit,
                   !.collected = collected,
                   !.trimmed = trimmed,
                   !.started = IF compact THEN trimmed ELSE <<>>,
                   !.slots = IF compact THEN [i \in 1..Len(trimmed) |-> PendingSlot]
                             ELSE <<>>]
  /\ UNCHANGED <<vars, proc, lastSaver, cmd, roles, conf, codec, mut, pager>>

\* One of the pending lookups settles; a rejection rejects Promise.all and
\* the command reports the error.
FanSettle(i, ok) ==
  /\ fan.pc = "lookups"
  /\ i \in 1..Len(fan.slots)
  /\ fan.slots[i].st = "pending"
  /\ IF ok
       THEN fan' = [fan EXCEPT
                      !.slots[i] = [st |-> "ok", thread |-> getThreadEntry(fan.started[i])],
                      !.order = Append(fan.order, i)]
       ELSE fan' = [fan EXCEPT !.slots[i].st = "rejected",
                               !.pc = "done",
                               !.out = [kind |-> "fail", issues |-> <<>>]]
  /\ UNCHANGED <<vars, proc, lastSaver, cmd, roles, conf, codec, mut, pager>>

\* Promise.all resolved: the payload is built by index and written.
FanEmit ==
  /\ fan.pc = "lookups"
  /\ \A i \in 1..Len(fan.slots) : fan.slots[i].st = "ok"
  /\ LET latestThreads == [i \in 1..Len(fan.slots) |->
                             fan.slots[ResultSlot(i, fan.order)].thread]
     IN  fan' = [fan EXCEPT
                   !.pc = "done",
                   !.out = [kind |-> "emit",
                            issues |-> [i \in 1..Len(fan.trimmed) |->
                                          [id |-> fan.trimmed[i],
                                           thread |-> IF fan.compact THEN latestThreads[i]
                                                      ELSE NoThread]]]]
  /\ UNCHANGED <<vars, proc, lastSaver, cmd, roles, conf, codec, mut, pager>>

InitFan ==
  /\ canon = FileAbsent
  /\ legacy = FileAbsent
  /\ ResolverIdle
  /\ BesideResolverIdle

NextFan ==
  \/ \E compact \in BOOLEAN, limit \in 1..MaxLimit, collected \in CollectedLists :
       FanStart(compact, limit, collected)
  \/ \E i \in 1..MaxLimit, ok \in BOOLEAN : FanSettle(i, ok)
  \/ FanEmit

SpecFan == InitFan /\ [][NextFan]_allVars

\* C22: with --compact the lookups started are those of the trimmed batch,
\* one per issue and at most limit of them, all started before any settles;
\* and entry i of the output carries the thread of issue i, in whatever
\* order the lookups settled. Without --compact no lookup is started.
C22_LookupsByIndex ==
  /\ fan.pc # "idle" =>
       /\ Len(fan.started) <= fan.limit
       /\ fan.started = (IF fan.compact
                           THEN [i \in 1..Len(fan.started) |-> fan.collected[i]]
                           ELSE <<>>)
       /\ fan.compact => Len(fan.started) = Len(fan.trimmed)
       /\ Len(fan.collected) >= fan.limit => Len(fan.trimmed) = fan.limit
  /\ (fan.out.kind = "emit" /\ fan.compact) =>
       /\ Len(fan.out.issues) = Len(fan.trimmed)
       /\ \A i \in 1..Len(fan.trimmed) :
            /\ fan.out.issues[i].id = fan.collected[i]
            /\ fan.out.issues[i].thread = getThreadEntry(fan.collected[i])

C22_Witness ==
  /\ fan.out.kind = "emit"
  /\ fan.compact
  /\ Len(fan.collected) > fan.limit
  /\ fan.order = <<2, 1>>
  /\ fan.out.issues[1].thread # fan.out.issues[2].thread

(***************************************************************************)
(* The memoized configuration (src/lib/config.ts)                          *)
(***************************************************************************)

\* Most resolveDefaultChannel calls followed in one process.
MaxCalls == 3

ConfigOf(default_channel, listChannel) ==
  [has |-> TRUE, default_channel |-> default_channel, listChannel |-> listChannel]

\* What the config file may be: missing, not JSON, or a config.
ConfigFiles ==
  {ConfigAbsent, [st |-> "bad", doc |-> NoConfig]}
    \cup {[st |-> "ok", doc |-> c] :
            c \in {ConfigOf("D1", "CL"), ConfigOf("D2", Undef), ConfigOf(Undef, "CM")}}

\* process.env.SLACK_LIST_DEFAULT_CHANNEL
EnvChannels == {Undef, "", "CE"}

\* readFileSync + JSON.parse inside try / catch: the config, or null.
ReadConfig(file) == IF file.st = "ok" THEN file.doc ELSE NoConfig

\* A loadConfig that reads the file on every call.
MemoNeverHit(cached) == FALSE

\* cachedConfig !== undefined
MemoHit(cached) == cached.set

\* loadConfig() on the memo c.cached and the file c.file: the memo after
\* the call, which is also what the call returns, and the reads made.
loadConfig(c) ==
  IF MemoHit(c.cached)
    THEN c
    ELSE [c EXCEPT !.cached = [set |-> TRUE, value |-> ReadConfig(c.file)],
                   !.reads = c.reads + 1,
                   !.loaded = IF c.reads = 0 THEN c.file ELSE c.loaded]

\* The channel resolveDefaultChannel takes from a loaded config.
ChannelOf(listId, config) ==
  IF listId = ListId /\ config.has /\ Truthy(config.listChannel)
    THEN config.listChannel
    ELSE IF config.has THEN config.default_channel ELSE Undef

\* resolveDefaultChannel(listId)
resolveDefaultChannel(listId) ==
  /\ conf.calls < MaxCalls
  /\ IF Truthy(conf.env)
       THEN conf' = [conf EXCEPT !.calls = conf.calls + 1, !.listId = listId,
                                 !.ret = conf.env]
       ELSE LET c == loadConfig(conf)
            IN  conf' = [c EXCEPT !.calls = conf.calls + 1, !.listId = listId,
                                  !.ret = ChannelOf(listId, c.cached.value)]
  /\ UNCHANGED <<vars, proc, lastSaver, cmd, roles, fan, codec, mut, pager>>

\* Something outside the process rewrites or removes the config file.
ConfigFileChanges(file) ==
  /\ conf.file # file
  /\ conf' = [conf EXCEPT !.file = file]
  /\ UNCHANGED <<vars, proc, lastSaver, cmd, roles, fan, codec, mut, pager>>

InitConfig ==
  /\ canon = FileAbsent
  /\ legacy = FileAbsent
  /\ ResolverIdle
  /\ proc = [p \in Procs |-> NoCall]
  /\ lastSaver = NoSaver
  /\ cmd = NoCmd
  /\ roles = NoRoles
  /\ fan = NoFan
  /\ codec = NoCodec
  /\ mut = NoMut
  /\ pager = NoPager
  /\ conf \in {[NoConf EXCEPT !.env = e, !.file = f] : e \in EnvChannels, f \in ConfigFiles}

NextConfig ==
  \/ \E listId \in {Undef, ListId, OtherListId} : resolveDefaultChannel(listId)
  \/ \E file \in ConfigFiles : ConfigFileChanges(file)

SpecConfig == InitConfig /\ [][NextConfig]_allVars

\* C23: the config file is read at most once in a process; what the first
\* load got (the parsed config, or null for a missing or unparsable file) is
\* what every later call answers from, whatever the file has become; and
\* with SLACK_LIST_DEFAULT_CHANNEL set the file is never read.
C23_ConfigLoadedOnce ==
  /\ conf.reads <= 1
  /\ conf.cached.set = (conf.reads = 1)
  /\ conf.cached.set => conf.cached.value = ReadConfig(conf.loaded)
  /\ Truthy(conf.env) => conf.reads = 0 /\ (conf.calls > 0 => conf.ret = conf.env)
  /\ (~Truthy(conf.env) /\ conf.calls > 0) =>
       conf.ret = ChannelOf(conf.listId, ReadConfig(conf.loaded))

C23_Witness ==
  /\ conf.calls = MaxCalls
  /\ conf.reads = 1
  /\ conf.loaded.st = "ok"
  /\ conf.file.st = "ok"
  /\ conf.listId = ListId
  /\ conf.ret = ChannelOf(ListId, conf.loaded.doc)
  /\ conf.ret # ChannelOf(ListId, conf.file.doc)

(***************************************************************************)
(* The typed field codec (src/commands/items.ts, src/lib/fields.ts)        *)
(***************************************************************************)

\* String.prototype.toLowerCase on the strings of the model.
ToLowerCase(str) ==
  CASE str \in {"YES", "Yes"} -> "yes"
    [] str \in {"DONE", "Done"} -> "done"
    [] str = "TRUE" -> "true"
    [] str = "Completed" -> "completed"
    [] str = "Blocked" -> "blocked"
    [] str = "In Progress" -> "in progress"
    [] str = "WIP" -> "wip"
    [] OTHER -> str

\* A comparison that leaves the case of the token as typed.
LowerCased(value) == value

\* value.toLowerCase() in normalizeStatusValue
StatusLowerCased(value) == ToLowerCase(value)

\* Choices of the select column the codec is tried on: value and label.
CodecChoices ==
  <<[value |-> "done", label |-> "Done"],
    [value |-> "blocked", label |-> "Blocked"],
    [value |-> "wip", label |-> "In Progress"]>>

\* resolveSelectValues(column, input): the canonical values of the tokens,
\* matched case-insensitively by value or label; UnknownOption otherwise.
MatchedChoices(token) ==
  {i \in 1..Len(CodecChoices) :
     \/ ToLowerCase(CodecChoices[i].value) = ToLowerCase(token)
     \/ ToLowerCase(CodecChoices[i].label) = ToLowerCase(token)}

resolveSelectValues(tokens) ==
  IF \E k \in 1..Len(tokens) : MatchedChoices(tokens[k]) = {}
    THEN ThrownOut
    ELSE ArrayOut([k \in 1..Len(tokens) |->
                     Str(CodecChoices[CHOOSE i \in MatchedChoices(tokens[k]) :
                                        \A j \in MatchedChoices(tokens[k]) : i <= j].value)])

\* normalizeStatusValue(value, column)
normalizeStatusValue(value, type) ==
  CASE type = "todo_completed" ->
         BoolOut(StatusLowerCased(value) \in {"completed", "done", "true", "yes", "1"})
    [] type = "select" -> resolveSelectValues(<<value>>)
    [] OTHER -> ArrayOut(<<Str(value)>>)

\* Status tokens a user may type.
StatusTokens ==
  {"YES", "Yes", "yes", "DONE", "done", "TRUE", "true", "Completed", "completed", "1",
   "maybe", "no", "0", "", "Blocked", "WIP"}

StatusColumnTypes == {"todo_completed", "select", "text"}

\* items list --status <value> normalizes the value for the status column.
NormalizeStatus(value, type) ==
  /\ codec.op = "none"
  /\ codec' = [codec EXCEPT !.op = "status", !.token = value, !.type = type,
                            !.out = normalizeStatusValue(value, type)]
  /\ UNCHANGED <<vars, proc, lastSaver, cmd, roles, fan, conf, mut, pager>>

\* C24: for a todo_completed column the status token is coerced to a
\* boolean, true exactly for the spellings of completed, done, true, yes and
\* 1 in any letter case and false for every other token; it never throws.
C24_CheckboxCoercion ==
  (codec.op = "status" /\ codec.type = "todo_completed") =>
    /\ codec.out.kind = "bool"
    /\ codec.out.b = (codec.token \in {"YES", "Yes", "yes", "DONE", "done", "TRUE", "true",
                                       "Completed", "completed", "1"})

C24_Witness ==
  /\ codec.op = "status"
  /\ codec.type = "todo_completed"
  /\ codec.token = "YES"
  /\ codec.out = BoolOut(TRUE)

(***************************************************************************)
(* Extractors                                                              *)
(***************************************************************************)

\* Longest tagged array, most rich-text blocks, deepest nesting below a
\* block, and most comma-separated tokens the codec is tried on.
MaxElems == 2
MaxBlocks == 2
MaxDepth == 3
MaxTokens == 2

\* Number(x)
Number(x) ==
  CASE x.t = "num" -> x
    [] x.t = "str" /\ x.s = "3" -> Num(3)
    [] x.t = "str" /\ x.s = "4" -> Num(4)
    [] x.t = "str" /\ x.s = "7" -> Num(7)
    [] x.t = "str" /\ x.s = "0" -> Num(0)
    [] x.t = "str" /\ x.s = "1" -> Num(1)
    [] x.t = "str" /\ x.s = "2" -> Num(2)
    [] x.t = "str" /\ x.s = "-1" -> Num(-1)
    [] x.t = "str" /\ x.s = "Infinity" -> Infinity
    [] x.t = "null" -> Num(0)
    [] OTHER -> NaN

\* String(x)
String(x) ==
  CASE x.t = "str" -> x
    [] x.t = "objval" -> Str("[object Object]")
    [] x.t = "obj" -> Str("[object Object]")
    [] x.t = "num" /\ x.n = 3 -> Str("3")
    [] x.t = "num" /\ x.n = 4 -> Str("4")
    [] x.t = "num" /\ x.n = 7 -> Str("7")
    [] x.t = "num" -> Str("0")
    [] x.t = "nan" -> Str("NaN")
    [] OTHER -> Str(x.t)

\* String.prototype.trim on the strings of the model.
Trim(str) ==
  CASE str = " " -> ""
    [] str = " Blocked" -> "Blocked"
    [] OTHER -> str

\* An extractor that never collapses a one-element array.
SelectNeverCollapses(select) == FALSE

\* select.length === 1
SelectCollapses(select) == Len(select) = 1

extractSelect(field) ==
  IF ~field.has THEN NullOut
  ELSE IF field.tagged.isArray
    THEN IF SelectCollapses(field.tagged.elems)
           THEN ScalarOut(field.tagged.elems[1])
           ELSE ArrayOut(field.tagged.elems)
  ELSE IF field.value.t = "str" THEN ScalarOut(field.value)
  ELSE NullOut

extractUsers(field) ==
  IF ~field.has THEN NullOut
  ELSE IF field.tagged.isArray
    THEN IF Len(field.tagged.elems) = 1
           THEN ScalarOut(field.tagged.elems[1])
           ELSE ArrayOut(field.tagged.elems)
  ELSE IF field.value.t = "str" THEN ScalarOut(field.value)
  ELSE NullOut

extractRating(field) ==
  IF ~field.has THEN NullOut
  ELSE IF field.tagged.isArray /\ Len(field.tagged.elems) > 0
    THEN ScalarOut(Number(field.tagged.elems[1]))
  ELSE IF field.value.t = "num" THEN ScalarOut(field.value)
  ELSE IF field.value.t = "str"
    THEN IF Number(field.value).t = "num" THEN ScalarOut(Number(field.value)) ELSE NullOut
  ELSE NullOut

extractDate(field) ==
  IF ~field.has THEN NullOut
  ELSE IF field.tagged.isArray /\ Len(field.tagged.elems) > 0
    THEN ScalarOut(String(field.tagged.elems[1]))
  ELSE IF field.value.t = "str" THEN ScalarOut(field.value)
  ELSE NullOut

extractMessage(field) ==
  LET entry == field.tagged.elems[1]
  IN  IF ~field.has THEN NullOut
      ELSE IF field.tagged.isArray /\ Len(field.tagged.elems) > 0 /\ entry.t = "str"
        THEN ScalarOut(entry)
      ELSE IF field.tagged.isArray /\ Len(field.tagged.elems) > 0 /\ entry.t = "objval"
        THEN ScalarOut(Str(entry.s))
      ELSE IF field.value.t = "str" THEN ScalarOut(field.value)
      ELSE NullOut

\* A node of a rich-text tree: not an object (obj FALSE), or an object with
\* a text member and an elements member.
Node(text, kids) == [obj |-> TRUE, text |-> text, kids |-> kids]
NotAnObject == [obj |-> FALSE, text |-> Undefined, kids |-> NotArray]

RECURSIVE Flatten(_)
Flatten(seqs) == IF seqs = <<>> THEN <<>> ELSE Head(seqs) \o Flatten(Tail(seqs))

\* The elements of a node the walk goes into: none unless the node is an
\* object whose elements member is an array.
ElementsOf(node) == IF node.obj /\ node.kids.isArray THEN node.kids.elems ELSE <<>>

\* The nodes the three nested loops of extractText look at, in loop order:
\* block.elements[i].elements[j] of every block.
WalkedNodes(blocks) ==
  LET elements == Flatten([b \in 1..Len(blocks) |-> ElementsOf(blocks[b])])
  IN  Flatten([e \in 1..Len(elements) |-> ElementsOf(elements[e])])

IsTextNode(node) == node.obj /\ node.text.t = "str"

extractText(field) ==
  LET hits == SelectSeq(WalkedNodes(field.rich.elems), IsTextNode)
  IN  IF ~field.has THEN NullOut
      ELSE IF field.text.t = "str" /\ Trim(field.text.s) # "" THEN ScalarOut(field.text)
      ELSE IF field.rich.isArray /\ hits # <<>> THEN ScalarOut(String(hits[1].text))
      ELSE IF field.value.t = "str" THEN ScalarOut(field.value)
      ELSE NullOut

\* The text leaves of a tree in depth-first order, at any depth.
RECURSIVE TextLeaves(_)
TextLeaves(node) ==
  IF ~node.obj THEN <<>>
  ELSE IF node.text.t = "str" THEN <<node.text>>
  ELSE Flatten([k \in 1..Len(ElementsOf(node)) |-> TextLeaves(ElementsOf(node)[k])])

Extractors == {"select", "user", "rating", "date", "message"}

extract(op, field) ==
  CASE op = "select" -> extractSelect(field)
    [] op = "user" -> extractUsers(field)
    [] op = "rating" -> extractRating(field)
    [] op = "date" -> extractDate(field)
    [] op = "message" -> extractMessage(field)
    [] op = "text" -> extractText(field)

\* Elements of a tagged array, and generic fallback values.
ElemPool == {Str("a"), Str("b"), Str("3"), Num(4), ObjWithValue("m"), ObjWithout}
ValuePool == {Undefined, Str("v"), Str("3"), Num(7)}

TaggedFields ==
  {NoField}
    \cup {[NoField EXCEPT !.has = TRUE, !.tagged = t, !.value = v] :
            t \in {NotArray} \cup {Array(e) : e \in UNION {[1..n -> ElemPool] : n \in 0..MaxElems}},
            v \in ValuePool}

\* Rich-text nodes nested at most d levels deep.
RECURSIVE Nodes(_)
Nodes(d) ==
  LET leaves == {Node(Str("x"), NotArray), Node(Str("y"), NotArray),
                 Node(Undefined, NotArray), NotAnObject}
  IN  IF d = 0 THEN leaves
      ELSE leaves \cup {Node(Undefined, Array(<<>>))}
                  \cup {Node(Undefined, Array(<<n>>)) : n \in Nodes(d - 1)}

TextFields ==
  {NoField}
    \cup {[NoField EXCEPT !.has = TRUE, !.text = t, !.rich = r, !.value = v] :
            t \in {Undefined, Str(" "), Str("t")},
            r \in {NotArray}
                    \cup {Array(b) : b \in UNION {[1..n -> Nodes(MaxDepth)] : n \in 0..MaxBlocks}},
            v \in {Undefined, Str("v")}}

\* toCompactItem projects a field with one of the array extractors.
Extract(op, field) ==
  /\ codec.op = "none"
  /\ codec' = [codec EXCEPT !.op = op, !.field = field, !.out = extract(op, field)]
  /\ UNCHANGED <<vars, proc, lastSaver, cmd, roles, fan, conf, mut, pager>>

\* toCompactItem projects the name field with extractText.
ExtractText(field) ==
  /\ codec.op = "none"
  /\ codec' = [codec EXCEPT !.op = "text", !.field = field, !.out = extractText(field)]
  /\ UNCHANGED <<vars, proc, lastSaver, cmd, roles, fan, conf, mut, pager>>

\* buildTypedField(column, rawValue) for a select column; rawValue is given
\* as its comma-separated pieces. The payload is a field whose select member
\* holds the canonical values.
buildTypedField(pieces) ==
  LET values == resolveSelectValues([k \in 1..Len(pieces) |-> Trim(pieces[k])])
  IN  IF values.kind = "throw" THEN NoField
      ELSE [NoField EXCEPT !.has = TRUE, !.tagged = Array(values.arr)]

\* Pieces of a --field value for the select column.
SelectPieces ==
  {"Done", "done", "DONE", " Blocked", "blocked", "In Progress", "WIP", "nope"}

\* A select value is built and read back.
RoundTrip(pieces) ==
  /\ codec.op = "none"
  /\ LET built == buildTypedField(pieces)
     IN  codec' = [codec EXCEPT !.op = "roundtrip", !.tokens = pieces, !.field = built,
                                !.out = IF built.has THEN extractSelect(built) ELSE ThrownOut]
  /\ UNCHANGED <<vars, proc, lastSaver, cmd, roles, fan, conf, mut, pager>>

InitCodec ==
  /\ canon = FileAbsent
  /\ legacy = FileAbsent
  /\ ResolverIdle
  /\ BesideResolverIdle

NextCodec ==
  \/ \E value \in StatusTokens, type \in StatusColumnTypes : NormalizeStatus(value, type)
  \/ \E op \in Extractors, field \in TaggedFields : Extract(op, field)
  \/ \E field \in TextFields : ExtractText(field)
  \/ \E pieces \in UNION {[1..n -> SelectPieces] : n \in 1..MaxTokens} : RoundTrip(pieces)

SpecCodec == InitCodec /\ [][NextCodec]_allVars

(***************************************************************************)
(* Claims about the extractors                                             *)
(***************************************************************************)

\* C25: the select, user, rating, date and message extractors return null
\* for an absent field, the whole tagged array when it has several elements,
\* a scalar when it has one, and null when the tagged array is empty and the
\* field has no generic value.
C25_ExtractorsReturnPayload ==
  codec.op \in Extractors =>
    LET field == codec.field
        elems == field.tagged.elems
    IN  /\ ~field.has => codec.out = NullOut
        /\ (field.has /\ field.tagged.isArray /\ Len(elems) = 1) => codec.out.kind # "array"
        /\ (field.has /\ field.tagged.isArray /\ Len(elems) > 1) => codec.out = ArrayOut(elems)
        /\ (field.has /\ field.tagged.isArray /\ Len(elems) = 0 /\ field.value = Undefined)
             => codec.out = NullOut

\* The text leaves below the blocks of a rich-text field, depth first.
LeavesBelowBlocks(field) ==
  LET elements == Flatten([b \in 1..Len(field.rich.elems) |-> ElementsOf(field.rich.elems[b])])
  IN  Flatten([e \in 1..Len(elements) |-> TextLeaves(elements[e])])

\* C26: for a rich-text field without a plain text member, extractText
\* returns the first text leaf of a depth-first walk of the blocks' elements,
\* at whatever depth it lies, and null only when there is no leaf and no
\* generic value.
C26_TextFirstLeafAnyDepth ==
  (codec.op = "text" /\ codec.field.has /\ codec.field.text = Undefined
     /\ codec.field.rich.isArray) =>
    LET leaves == LeavesBelowBlocks(codec.field)
    IN  /\ leaves # <<>> => codec.out = ScalarOut(leaves[1])
        /\ (leaves = <<>> /\ codec.field.value = Undefined) => codec.out = NullOut

\* A field carries a usable tagged payload for an extractor.
UsablePayload(op, field) ==
  CASE op = "text" ->
         \/ field.text.t = "str" /\ Trim(field.text.s) # ""
         \/ field.rich.isArray /\ LeavesBelowBlocks(field) # <<>>
    [] op = "message" ->
         /\ field.tagged.isArray
         /\ Len(field.tagged.elems) > 0
         /\ field.tagged.elems[1].t \in {"str", "objval"}
    [] OTHER -> field.tagged.isArray /\ Len(field.tagged.elems) > 0

\* C27: when a field carries both a usable tagged payload and a generic
\* value, every extractor returns what it returns for the same field
\* without the generic value, and that is not null.
C27_TaggedPayloadPreferred ==
  (codec.op \in Extractors \cup {"text"} /\ codec.field.has
     /\ codec.field.value # Undefined /\ UsablePayload(codec.op, codec.field)) =>
    /\ codec.out = extract(codec.op, [codec.field EXCEPT !.value = Undefined])
    /\ codec.out.kind # "null"

\* The canonical option value a piece of input stands for.
CanonicalValue(piece) ==
  CASE piece \in {"Done", "done", "DONE"} -> "done"
    [] piece \in {" Blocked", "blocked"} -> "blocked"
    [] piece \in {"In Progress", "WIP"} -> "wip"
    [] OTHER -> "?"

\* C28: extracting from the payload built for a select input made of labels
\* or values of the choices gives the canonical option values: a scalar for
\* one token, the array in input order for several.
C28_SelectRoundTrip ==
  (codec.op = "roundtrip" /\ \A k \in 1..Len(codec.tokens) : codec.tokens[k] # "nope") =>
    codec.out =
      IF Len(codec.tokens) = 1
        THEN ScalarOut(Str(CanonicalValue(codec.tokens[1])))
        ELSE ArrayOut([k \in 1..Len(codec.tokens) |-> Str(CanonicalValue(codec.tokens[k]))])

C28_Witness ==
  /\ codec.op = "roundtrip"
  /\ codec.tokens = <<"In Progress", " Blocked">>
  /\ codec.out = ArrayOut(<<Str("wip"), Str("blocked")>>)

(***************************************************************************)
(* items create and items update                                           *)
(***************************************************************************)

\* Most --field arguments on one command line.
MaxFieldArgs == 1

\* A convenience flag as given on the command line: column is what the role
\* resolver does with the schema (a column, undefined, or a throw), build
\* is whether buildTypedField accepts the value.
FlagRequest(opt, column, build) ==
  [opt |-> opt, parsed |-> "flag", key |-> "", column |-> column, build |-> build,
   row |-> Undef]

\* A --field argument: parseFieldArgument throws, returns a JSON object
\* (with a column_id member, a columnId member, or neither) or a key=value
\* pair. row is the row_id member of a JSON object, Undef when it has none.
FieldRequest(parsed, key, column, build) ==
  [opt |-> "field", parsed |-> parsed, key |-> key, column |-> column, build |-> build,
   row |-> Undef]

FlagOutcomes ==
  {<<"found", "ok">>, <<"found", "throws">>, <<"undefined", "ok">>, <<"throws", "ok">>}

\* The flags are looked at in a fixed order; one that was not given is
\* skipped.
FlagsGiven(command) ==
  LET opts == IF command = "create" THEN <<"name", "assignee", "status">>
                                    ELSE <<"assignee", "status">>
      pick(opt) == {<<>>} \cup {<<FlagRequest(opt, o[1], o[2])>> : o \in FlagOutcomes}
  IN  IF command = "create"
        THEN {a \o b \o c : a \in pick("name"), b \in pick("assignee"), c \in pick("status")}
        ELSE {a \o b : a \in pick("assignee"), b \in pick("status")}

FieldArgs ==
  {FieldRequest("throws", "", "found", "ok"),
   FieldRequest("json", "column_id", "found", "ok"),
   FieldRequest("json", "columnId", "found", "ok"),
   FieldRequest("json", "none", "found", "ok"),
   [FieldRequest("json", "column_id", "found", "ok") EXCEPT !.row = "I9"],
   [FieldRequest("json", "columnId", "found", "ok") EXCEPT !.row = "I9"],
   FieldRequest("kv", "", "found", "ok"),
   FieldRequest("kv", "", "found", "throws"),
   FieldRequest("kv", "", "undefined", "ok")}

FieldArgLists == UNION {[1..n -> FieldArgs] : n \in 0..MaxFieldArgs}

\* What one block of the action does with a request: "pushed" when a field
\* is appended, "thrown" when the block throws.
FieldStep(request, schemaIndex) ==
  IF request.parsed = "throws" THEN "thrown"
  ELSE IF request.parsed = "json"
    THEN IF request.key = "none" THEN "thrown" ELSE "pushed"
  ELSE IF schemaIndex # "index" THEN "thrown"
  ELSE IF request.column # "found" THEN "thrown"
  ELSE IF request.build # "ok" THEN "thrown"
  ELSE "pushed"

\* The <item-id> argument of items update.
ItemId == "I1"

\* { ...base, ...over } over the members row_id and column_id: a member of
\* the later object replaces the earlier one.
SpreadOver(base, over) ==
  [k \in {"row_id", "column_id"} |-> IF over[k] # Undef THEN over[k] ELSE base[k]]

\* The object of a JSON --field argument, columnId renamed to column_id when
\* it has no column_id.
JsonFieldValue(request) ==
  [row_id |-> request.row,
   column_id |-> IF request.key \in {"column_id", "columnId"} THEN "c7" ELSE Undef]

\* The payload of buildTypedField: it has no row_id and no column_id.
TypedPayload == [row_id |-> Undef, column_id |-> Undef]

\* What a block pushes: initialFields.push({ column_id, ...typed }) or
\* push(value) in items create; cells.push({ row_id: itemId, column_id,
\* ...typed }) or cells.push({ row_id: itemId, ...value }) in items update.
PushedCell(command, request) ==
  LET first == [row_id |-> IF command = "update" THEN ItemId ELSE Undef,
                column_id |-> IF request.parsed = "json" THEN Undef ELSE "c1"]
  IN  IF request.parsed = "json"
        THEN SpreadOver(first, JsonFieldValue(request))
        ELSE SpreadOver(first, TypedPayload)

\* A command that goes on to the mutation with no field.
NeverEmpty(fields) == FALSE

\* initialFields.length === 0 / cells.length === 0
NoFieldsProvided(fields) == Len(fields) = 0

\* The action starts: resolveSchemaIndex returns an index, returns
\* undefined, or throws.
MutStart(command, schemaIndex, requests) ==
  /\ mut.pc = "idle"
  /\ mut' = [mut EXCEPT !.pc = IF schemaIndex = "throws" THEN "done" ELSE "fields",
                        !.command = command, !.schemaIndex = schemaIndex,
                        !.requests = requests,
                        !.out = IF schemaIndex = "throws" THEN "error" ELSE "none"]
  /\ UNCHANGED <<vars, proc, lastSaver, cmd, roles, fan, conf, codec, pager>>

\* The next flag or --field argument is resolved and built.
MutField ==
  /\ mut.pc = "fields"
  /\ mut.next <= Len(mut.requests)
  /\ LET request == mut.requests[mut.next]
     IN  IF FieldStep(request, mut.schemaIndex) = "pushed"
           THEN mut' = [mut EXCEPT !.next = @ + 1, !.fields = Append(@, request),
                                   !.cells = Append(@, PushedCell(mut.command, request))]
           ELSE mut' = [mut EXCEPT !.pc = "done", !.out = "error"]
  /\ UNCHANGED <<vars, proc, lastSaver, cmd, roles, fan, conf, codec, pager>>

\* After the last request: the emptiness check, then the one mutation call,
\* which returns or throws.
MutCall(ok) ==
  /\ mut.pc = "fields"
  /\ mut.next > Len(mut.requests)
  /\ IF NoFieldsProvided(mut.fields)
       THEN mut' = [mut EXCEPT !.pc = "done", !.out = "error"]
       ELSE mut' = [mut EXCEPT !.pc = "done", !.calls = @ + 1,
                               !.out = IF ok THEN "printed" ELSE "error"]
  /\ UNCHANGED <<vars, proc, lastSaver, cmd, roles, fan, conf, codec, pager>>

InitMutate ==
  /\ canon = FileAbsent
  /\ legacy = FileAbsent
  /\ ResolverIdle
  /\ BesideResolverIdle

NextMutate ==
  \/ \E command \in {"create", "update"}, schemaIndex \in {"index", "undefined", "throws"} :
       \E flags \in FlagsGiven(command), args \in FieldArgLists :
         MutStart(command, schemaIndex, flags \o args)
  \/ MutField
  \/ \E ok \in BOOLEAN : MutCall(ok)

SpecMutate == InitMutate /\ [][NextMutate]_allVars

\* A request whose column resolved and whose value was accepted.
RequestSucceeds(request, schemaIndex) ==
  \/ request.parsed = "json" /\ request.key \in {"column_id", "columnId"}
  \/ /\ request.parsed \in {"flag", "kv"}
     /\ schemaIndex = "index"
     /\ request.column = "found"
     /\ request.build = "ok"

\* C29: the mutation is called at most once, and only when at least one
\* field was requested and every requested field was resolved and built.
C29_MutationAfterAllFields ==
  /\ mut.calls <= 1
  /\ mut.calls = 1 =>
       /\ mut.requests # <<>>
       /\ mut.fields = mut.requests
       /\ \A k \in 1..Len(mut.requests) : RequestSucceeds(mut.requests[k], mut.schemaIndex)
  /\ (mut.pc = "done" /\ mut.calls = 0) =>
       \/ mut.schemaIndex = "throws"
       \/ mut.requests = <<>>
       \/ \E k \in 1..Len(mut.requests) : ~RequestSucceeds(mut.requests[k], mut.schemaIndex)

C29_Witness ==
  /\ mut.pc = "done"
  /\ mut.calls = 1
  /\ Len(mut.requests) = 3
  /\ mut.schemaIndex = "index"

(***************************************************************************)
(* Provisional schemas and the cache                                       *)
(***************************************************************************)

\* The describe tier (slackLists.info) was attempted by the schema
\* resolution of the command.
DescribeAttempted == \E k \in 1..Len(log) : log[k].op = "slackLists.info"

C31_CacheEntryHasItsListId ==
  canon.st = "ok" => Parse(canon.doc).list_id = ListId

(***************************************************************************)
(* Concurrent opportunistic syncs                                          *)
(***************************************************************************)

\* The items two concurrent commands hand to syncSchemaCache.
SyncLists == {<<i>> : i \in ItemPool}

InitSyncRace ==
  /\ canon \in {FileAbsent, FileOf(CachedConfirmed)}
  /\ legacy = FileAbsent
  /\ ResolverIdle
  /\ BesideResolverIdle

\* Two processes in syncSchemaCache(listId, items) at once: each infers a
\* schema from its items and runs updateSchemaCache with it.
NextSyncRace ==
  \/ \E p \in Procs, synced \in SyncLists :
       UpdateLoad(p, inferSchemaFromItems(ListId, synced))
  \/ \E p \in Procs, written \in BOOLEAN : UpdateSave(p, written)

SpecSyncRace == InitSyncRace /\ [][NextSyncRace]_allVars

\* C32 as stated: no write changes the type of a column id the cache file
\* holds.
C32_TypesKeptUnderRace ==
  [][canon.st = "ok" =>
       \A id \in ColIds(Parse(canon.doc)) :
         (canon'.st = "ok" /\ id \in ColIds(Parse(canon'.doc))) =>
           ColById(Parse(canon'.doc), id).type = ColById(Parse(canon.doc), id).type
    ]_allVars

\* C32: a write leaves every column id of the schema its writer loaded in
\* the file, with the type the writer loaded; the type an id has in the file
\* can change only against a write made between that load and the save.
C32_TypesKeptFromLoad ==
  [][\A p \in Procs :
       (proc[p].pc = "save" /\ proc'[p].pc = "idle" /\ proc'[p].ret.out = "schema") =>
         /\ canon'.st = "ok"
         /\ proc[p].loaded.out = "schema" =>
              \A id \in ColIds(proc[p].loaded.schema) :
                /\ id \in ColIds(Parse(canon'.doc))
                /\ ColById(Parse(canon'.doc), id).type = ColById(proc[p].loaded.schema, id).type
    ]_allVars

\* Process 1 loaded a schema, saved while process 2 was between its load
\* and its save, and the file keeps the loaded type of an id that the
\* candidate of process 1 types differently.
C32_Witness ==
  /\ lastSaver.p = 1
  /\ Completed(proc[1], "update")
  /\ proc[1].ret.out = "schema"
  /\ proc[1].loaded.out = "schema"
  /\ proc[2].pc = "save"
  /\ "c1" \in ColIds(proc[1].loaded.schema) \cap ColIds(proc[1].cand)
  /\ ColById(proc[1].cand, "c1").type # ColById(proc[1].loaded.schema, "c1").type
  /\ ColById(Parse(canon.doc), "c1").type = ColById(proc[1].loaded.schema, "c1").type

\* C33 as stated: no step removes a column id from the cache file.
C33_IdsOnlyGrow ==
  [][canon.st = "ok" =>
       /\ canon'.st = "ok"
       /\ ColIds(Parse(canon.doc)) \subseteq ColIds(Parse(canon'.doc))
    ]_allVars

\* C33: the file an updateSchemaCache call writes holds every column id of
\* the schema the call loaded and every column id of its candidate; ids are
\* lost only to a write whose writer loaded before they were put there.
C33_IdsKeptFromLoad ==
  [][\A p \in Procs :
       (proc[p].pc = "save" /\ proc'[p].pc = "idle" /\ proc'[p].ret.out = "schema") =>
         /\ canon'.st = "ok"
         /\ ColIds(proc[p].cand) \subseteq ColIds(Parse(canon'.doc))
         /\ proc[p].loaded.out = "schema" =>
              ColIds(proc[p].loaded.schema) \subseteq ColIds(Parse(canon'.doc))
    ]_allVars

\* Process 2 saved last, after loading what process 1 had saved, and the
\* file holds the ids it loaded together with one only its candidate has.
C33_Witness ==
  /\ lastSaver.p = 2
  /\ Completed(proc[1], "update")
  /\ Completed(proc[2], "update")
  /\ proc[1].ret.out = "schema"
  /\ proc[2].loaded.out = "schema"
  /\ proc[2].loaded.schema = proc[1].ret.schema
  /\ ColIds(proc[2].loaded.schema) \subseteq ColIds(Parse(canon.doc))
  /\ \E id \in ColIds(proc[2].cand) :
       id \notin ColIds(proc[2].loaded.schema) /\ id \in ColIds(Parse(canon.doc))

(***************************************************************************)
(* Schemas without columns                                                 *)
(***************************************************************************)

DescribeNotOk ==
  /\ pc = "describe"
  /\ log' = Append(log, Ev("slackLists.info", "notok"))

\* The step is a describe call that threw unknown_method.
DescribeUnsupported ==
  /\ pc = "describe"
  /\ log' = Append(log, Ev("slackLists.info", "unknown_method"))

\* C35: a describe call that returns without a truthy ok ends nothing and
\* writes nothing: the call goes on to the item-listing tier, in the state
\* an unknown_method failure of describe gives.
C35_DescribeNotOkFallsThrough ==
  [][(DescribeNotOk \/ DescribeUnsupported) =>
       /\ pc' = "list"
       /\ result' = result
       /\ schema' = schema
       /\ canon' = canon
       /\ legacy' = legacy
    ]_allVars

\* Describe returned without ok and the call is at the item-listing tier.
C35_Witness ==
  /\ pc = "list"
  /\ log # <<>>
  /\ log[Len(log)] = Ev("slackLists.info", "notok")
  /\ result = NoResult

(***************************************************************************)
(* The cells of items update                                               *)
(***************************************************************************)

\* C36: every cell of the slackLists.items.update call has a column_id and
\* the row_id given on the command line.
C36_CellsCarryItemId ==
  (mut.command = "update" /\ mut.calls = 1) =>
    \A k \in 1..Len(mut.cells) :
      /\ mut.cells[k].column_id # Undef
      /\ mut.cells[k].row_id = ItemId

(***************************************************************************)
(* fetchAllItems                                                           *)
(***************************************************************************)

\* Most pages the service splits a list into, and most items on a page.
MaxPages == 3
MaxPageSize == 2

\* The service: the sizes of its pages. The j-th item of page k is <<k, j>>;
\* page k comes with next_cursor k, except the last page, which comes with
\* no cursor or an empty one. A call with cursor k answers with page k + 1.
Services == UNION {[1..n -> 0..MaxPageSize] : n \in 1..MaxPages}
LastCursors == {Undef, ""}

PageItems(service, k) == [j \in 1..service[k] |-> <<k, j>>]

RECURSIVE PagesUpTo(_, _)
PagesUpTo(service, k) ==
  IF k = 0 THEN <<>> ELSE PagesUpTo(service, k - 1) \o PageItems(service, k)

\* The page a cursor stands for.
PageOf(cursor) ==
  CASE cursor = Undef -> 1
    [] cursor = "1" -> 2
    [] cursor = "2" -> 3
    [] cursor = "3" -> 4
    [] cursor = "4" -> 5
    [] OTHER -> 1

NextCursor(service, last, k) ==
  IF k >= Len(service) THEN last
  ELSE CASE k = 1 -> "1" [] k = 2 -> "2" [] k = 3 -> "3" [] OTHER -> "4"

\* --limit values.
LimitOptions == {Undef, "", "0", "-1", "abc", "Infinity", "1", "2", "3"}

\* limitOption ? Number(limitOption) : undefined
LimitOf(limitOption) == IF Truthy(limitOption) THEN Number(Str(limitOption)) ELSE Undefined

\* limit !== undefined && (!Number.isFinite(limit) || limit <= 0)
LimitRejected(limit) ==
  limit # Undefined /\ (limit.t # "num" \/ limit.n <= 0)

\* A fetch that never stops for its limit.
LimitNeverReached(limit, count) == FALSE

\* limit && items.length >= limit
LimitReached(limit, count) == limit.t = "num" /\ limit.n # 0 /\ count >= limit.n

\* items.slice(0, limit) when limit && items.length > limit, else items
FetchReturn(got, limit) ==
  IF limit.t = "num" /\ limit.n # 0 /\ Len(got) > limit.n
    THEN SubSeq(got, 1, limit.n) ELSE got

\* fetchAllItems is called: the limit is parsed and checked.
FetchStart(limitOption, service, last) ==
  /\ pager.pc = "idle"
  /\ LET limit == LimitOf(limitOption)
         started == [pager EXCEPT !.op = "items", !.service = service, !.last = last,
                                  !.limitOption = limitOption, !.limit = limit]
     IN  IF LimitRejected(limit)
           THEN pager' = [started EXCEPT !.pc = "done", !.out = [kind |-> "throw", items |-> <<>>]]
           ELSE pager' = [started EXCEPT !.pc = "loop"]
  /\ UNCHANGED <<vars, proc, lastSaver, cmd, roles, fan, conf, codec, mut>>

\* One round of the do-while loop: the call with the current cursor, which
\* returns a page or throws, then the limit test and the loop test.
FetchPage(ok) ==
  /\ pager.op = "items"
  /\ pager.pc = "loop"
  /\ LET k == PageOf(pager.cursor)
         got == pager.got \o PageItems(pager.service, k)
         cursor == NextCursor(pager.service, pager.last, k)
         called == [pager EXCEPT !.calls = Append(@, pager.cursor)]
     IN  IF ~ok
           THEN pager' = [called EXCEPT !.pc = "done", !.out = [kind |-> "throw", items |-> <<>>]]
           ELSE IF LimitReached(pager.limit, Len(got)) \/ ~Truthy(cursor)
             THEN pager' = [called EXCEPT
                              !.got = got, !.cursor = cursor, !.pc = "done",
                              !.out = [kind |-> "return",
                                       items |-> FetchReturn(got, pager.limit)]]
             ELSE pager' = [called EXCEPT !.got = got, !.cursor = cursor]
  /\ UNCHANGED <<vars, proc, lastSaver, cmd, roles, fan, conf, codec, mut>>

InitFetch ==
  /\ canon = FileAbsent
  /\ legacy = FileAbsent
  /\ ResolverIdle
  /\ BesideResolverIdle

NextFetch ==
  \/ \E limitOption \in LimitOptions, service \in Services, last \in LastCursors :
       FetchStart(limitOption, service, last)
  \/ \E ok \in BOOLEAN : FetchPage(ok)

SpecFetch == InitFetch /\ [][NextFetch]_allVars

\* The loop runs on while the command does.
SpecFetchLive == SpecFetch /\ WF_allVars(NextFetch)

\* The limits fetchAllItems takes, as numbers; 0 stands for no limit.
WantedLimit(limitOption) ==
  CASE limitOption = "1" -> 1 [] limitOption = "2" -> 2 [] limitOption = "3" -> 3 [] OTHER -> 0

RECURSIVE SumSizes(_, _)
SumSizes(service, k) == IF k = 0 THEN 0 ELSE SumSizes(service, k - 1) + service[k]

\* The first page after which the fetch has to stop: the last page of the
\* service, or the first one with which the limit is reached.
StopPage(service, wanted) ==
  CHOOSE k \in 1..Len(service) :
    /\ k = Len(service) \/ (wanted > 0 /\ SumSizes(service, k) >= wanted)
    /\ \A h \in 1..(k - 1) : ~(wanted > 0 /\ SumSizes(service, h) >= wanted)

\* The cursors of the first n calls: none, then the cursor of each page.
CursorsSent(service, last, n) ==
  [k \in 1..n |-> IF k = 1 THEN Undef ELSE NextCursor(service, last, k - 1)]

C37_FetchSafe ==
  pager.op = "items" =>
    LET wanted == WantedLimit(pager.limitOption)
        stop == StopPage(pager.service, wanted)
        all == PagesUpTo(pager.service, stop)
    IN  IF pager.limitOption \in {"0", "-1", "abc", "Infinity"}
          THEN pager.pc = "done" /\ pager.out.kind = "throw" /\ pager.calls = <<>>
          ELSE /\ Len(pager.calls) <= stop
               /\ pager.calls = CursorsSent(pager.service, pager.last, Len(pager.calls))
               /\ (pager.pc = "done" /\ pager.out.kind = "return") =>
                    /\ Len(pager.calls) = stop
                    /\ pager.out.items =
                         IF wanted > 0 /\ Len(all) > wanted THEN SubSeq(all, 1, wanted) ELSE all

\* C37: fetchAllItems rejects a bad limit before any call; otherwise it
\* sends the cursor of the previous page with each call, stops at the first
\* page without a cursor or with which the limit is reached, returns the
\* items in service order cut to the limit, and always comes to an end.
C37_FetchAllItems == []C37_FetchSafe /\ <>(pager.pc = "done")

\* A fetch with limit 3 went through two pages and cut the last one.
C37_Witness ==
  /\ pager.op = "items"
  /\ pager.pc = "done"
  /\ pager.limitOption = "3"
  /\ pager.calls = <<Undef, "1">>
  /\ Len(pager.got) = 4
  /\ pager.out.items = <<<<1, 1>>, <<1, 2>>, <<2, 1>>>>

(***************************************************************************)
(* fetchIssueComments (src/commands/issues.ts)                             *)
(***************************************************************************)

\* Most comments on an issue.
MaxComments == 102

\* Math.min(50, ...)
BatchCap == 50

\* The comments of an issue, in service order.
CommentLists == {[n \in 1..t |-> n] : t \in 0..MaxComments}

\* The limits the command passes, parsed by parseLimit.
CommentLimits == {1, 2, 50, 51, 100, 101}

\* comments(first, after) of the service: the next `first` comments after
\* the cursor, whether more follow, and the cursor of the last one returned.
\* Cursor k is the cursor of the k-th comment; 0 stands for no cursor.
CommentsPage(service, first, after) ==
  LET start == after
      left == Len(service) - start
      n == IF first < left THEN first ELSE left
  IN  [nodes |-> SubSeq(service, start + 1, start + n),
       hasNextPage |-> start + n < Len(service),
       endCursor |-> IF n > 0 THEN start + n ELSE 0]

\* A loop that asks for a full batch every time.
BatchSizeAlwaysCap(limit, count) == BatchCap

\* Math.min(50, limit - comments.length)
BatchSize(limit, count) == IF limit - count < BatchCap THEN limit - count ELSE BatchCap

\* fetchIssueComments(client, issueId, limit) is called.
CommentsStart(limit, service) ==
  /\ pager.pc = "idle"
  /\ pager' = [pager EXCEPT !.op = "comments", !.service = service,
                            !.limit = Num(limit), !.cursor = 0, !.pc = "loop"]
  /\ UNCHANGED <<vars, proc, lastSaver, cmd, roles, fan, conf, codec, mut>>

\* One round of the while loop: the request, which returns a page or
\* throws, the pageInfo test, and the loop test; after the loop the result
\* is comments.slice(0, limit) and hasNextPage.
CommentsRound(ok) ==
  /\ pager.op = "comments"
  /\ pager.pc = "loop"
  /\ LET limit == pager.limit.n
         first == BatchSize(limit, Len(pager.got))
         page == CommentsPage(pager.service, first, pager.cursor)
         got == pager.got \o page.nodes
         called == [pager EXCEPT !.calls = Append(@, [first |-> first, after |-> pager.cursor])]
         returned(c, h) ==
           [called EXCEPT !.got = got, !.cursor = c, !.hasNextPage = h, !.pc = "done",
                          !.out = [kind |-> "return",
                                   items |-> SubSeq(got, 1, IF Len(got) < limit
                                                              THEN Len(got) ELSE limit)]]
     IN  IF ~ok
           THEN pager' = [called EXCEPT !.pc = "done", !.out = [kind |-> "throw", items |-> <<>>]]
           ELSE IF ~page.hasNextPage \/ page.endCursor = 0
             THEN pager' = returned(pager.cursor, FALSE)
           ELSE IF Len(got) < limit
             THEN pager' = [called EXCEPT !.got = got, !.cursor = page.endCursor,
                                          !.hasNextPage = TRUE]
           ELSE pager' = returned(page.endCursor, TRUE)
  /\ UNCHANGED <<vars, proc, lastSaver, cmd, roles, fan, conf, codec, mut>>

InitComments ==
  /\ canon = FileAbsent
  /\ legacy = FileAbsent
  /\ ResolverIdle
  /\ BesideResolverIdle

NextComments ==
  \/ \E limit \in CommentLimits, service \in CommentLists : CommentsStart(limit, service)
  \/ \E ok \in BOOLEAN : CommentsRound(ok)

SpecComments == InitComments /\ [][NextComments]_allVars

\* C38: fetchIssueComments returns the first comments of the issue, at most
\* limit of them, asks for a further page only after the service reported
\* one, and reports hasNextPage exactly when the issue has comments beyond
\* the returned ones.
C38_CommentsBounded ==
  pager.op = "comments" =>
    /\ \A k \in 2..Len(pager.calls) :
         pager.calls[k].after # 0 /\ pager.calls[k].after < Len(pager.service)
    /\ (pager.pc = "done" /\ pager.out.kind = "return") =>
         /\ Len(pager.out.items) <= pager.limit.n
         /\ pager.out.items = SubSeq(pager.service, 1, Len(pager.out.items))
         /\ pager.hasNextPage = (Len(pager.service) > Len(pager.out.items))

\* A fetch of 51 comments out of more took two requests and reports more.
C38_Witness ==
  /\ pager.op = "comments"
  /\ pager.pc = "done"
  /\ pager.limit.n = 51
  /\ Len(pager.calls) = 2
  /\ Len(pager.out.items) = 51
  /\ pager.hasNextPage

====
